---- MODULE Spec2Model ----
(***************************************************************************)
(* Admission Gate (.codex/tools/g0_enter_work.py) and Evidence Harness     *)
(* (tools/evidence/collect_packet_evidence.py) of the packet framework.    *)
(*                                                                         *)
(* Six specifications share one set of variables:                          *)
(*   SpecDecision      the Decision accumulator on its own                 *)
(*   SpecGate          successive invocations of the Gate's main()         *)
(*   SpecHarness       one invocation of the Harness's main(), any input   *)
(*   SpecHarnessRerun  successive invocations of the Harness's main() for  *)
(*                     one packet, the working copy changing in between    *)
(*   SpecConcurrent    two invocations of the Gate's main() for two        *)
(*                     packets, their steps interleaved                    *)
(*   SpecPipeline      the Gate's main(), then the runner, then the        *)
(*                     Harness's main() with the contract the Gate allowed *)
(***************************************************************************)
EXTENDS Integers, Sequences, FiniteSets, TLC

VARIABLES
    decision,      \* Decision(allow, deny_code, message)
    denyCalls,     \* the deny(code, message) calls made on `decision`, in order
    gate,          \* the local variables of the Gate's main() and its position
    worktrees,     \* disk and worktree registry: resolved path -> state
    local_branches,\* the refs/heads/* that exist in the repository
    g0_writes,     \* evidence records written by the current Gate invocation
    externals,     \* number of external repository events so far
    parked,        \* the Gate invocation of the other process, while this one steps
    har,           \* the local variables of the Harness's main() and its position
    out_files,     \* files under the evidence output root: path -> content
    repo,          \* the working copy the Harness looks at: HEAD and uncommitted changes
    runs           \* Harness invocations started so far

GateVars == <<decision, denyCalls, gate, worktrees, local_branches, g0_writes, externals, parked>>
HarnessVars == <<har, out_files, repo, runs>>
vars == <<GateVars, HarnessVars>>

(***************************************************************************)
(* Bounds of the model.                                                    *)
(***************************************************************************)
\* deny() calls made in a behaviour of SpecDecision
MaxCalls == 3
\* external events (another process touching the repository) in SpecGate
MaxExternal == 1
\* Harness invocations in a behaviour of SpecHarnessRerun (SpecHarness runs one)
MaxRuns == 2

(***************************************************************************)
(* Python values.  A JSON value is a tagged record; Absent is a key that   *)
(* the document does not hold (dict.get gives None, or the default).       *)
(***************************************************************************)
None == "<None>"
Absent == [t |-> "absent"]
Null == [t |-> "null"]
JStr(s) == [t |-> "str", v |-> s]
JBool(b) == [t |-> "bool", v |-> b]
JList(s) == [t |-> "list", v |-> s]
JInt(n) == [t |-> "int", v |-> n]

\* Python truthiness of a value read with dict.get(key)
Truthy(j) ==
    CASE j.t = "absent" -> FALSE
      [] j.t = "null" -> FALSE
      [] j.t = "bool" -> j.v
      [] j.t = "str" -> j.v # ""
      [] j.t = "list" -> j.v # <<>>
      [] j.t = "int" -> j.v # 0
      [] OTHER -> TRUE

\* str(contract.get(key) or default), for string-valued keys
StrOr(j, default) == IF Truthy(j) THEN j.v ELSE default

\* bool(contract.get(key, default)): the default only stands in for a missing key
BoolGet(j, default) == IF j.t = "absent" THEN default ELSE Truthy(j)

(***************************************************************************)
(* Decision                                                                *)
(***************************************************************************)
DenyCodes == {"WORKTREE_MISMATCH", "WORKTREE_COLLISION", "GIT_OP_IN_PROGRESS", "GH_PUSH_DENIED"}

\* Decision(): allow=True, deny_code=None, message=None
NewDecision == [allow |-> TRUE, deny_code |-> None, message |-> None]

\* a deny() without its `if self.allow` guard: the last denial wins
deny_last_wins(d, code, message) ==
    [allow |-> FALSE, deny_code |-> code, message |-> message]

\* Decision.deny
deny(d, code, message) ==
    IF d.allow
    THEN [allow |-> FALSE, deny_code |-> code, message |-> message]
    ELSE d

(***************************************************************************)
(* Paths, as sequences of components.                                      *)
(***************************************************************************)
\* git rev-parse --show-toplevel
RepoRoot == <<"repo">>
NoPath == <<>>

\* the components of the path strings the model uses
PathParts(s) ==
    CASE s = ".codex/.worktrees" -> <<".codex", ".worktrees">>
      [] s = ".codex/out" -> <<".codex", "out">>
      [] s = "alt" -> <<"alt">>
      [] s = "tmp/../alt" -> <<"tmp", "..", "alt">>
      [] OTHER -> <<s>>

RECURSIVE Resolve(_)
\* Path.resolve(): ".." steps are folded away (no symbolic links in the model)
Resolve(p) ==
    IF \E i \in 2..Len(p) : p[i] = ".." /\ p[i - 1] # ".."
    THEN LET i == CHOOSE j \in 2..Len(p) :
                      /\ p[j] = ".." /\ p[j - 1] # ".."
                      /\ \A k \in 2..(j - 1) : ~(p[k] = ".." /\ p[k - 1] # "..")
         IN Resolve(SubSeq(p, 1, i - 2) \o SubSeq(p, i + 1, Len(p)))
    ELSE p

(***************************************************************************)
(* The repository the Gate runs in.                                        *)
(***************************************************************************)
\* commits: c2 is a child of c1; d1 and c1 are both children of c0
Commits == {"c1", "c2", "d1"}
BranchNames == {"b1", "b2"}
PacketIds == {"p1", "p2"}
WorktreeRoots == {".codex/.worktrees", "tmp/../alt"}

\* git rev-parse --verify <ref> in the main repository: the commit, or None (rc # 0)
ResolveRef(ref) == IF ref = "main" THEN "c1" ELSE None

\* stdout of git merge-base HEAD <base>
MergeBase(head, base) ==
    CASE head = base -> base
      [] head = "c2" /\ base = "c1" -> "c1"
      [] OTHER -> "c0"

\* every resolved worktree path of the model
WtPaths == {Resolve(RepoRoot \o PathParts(r) \o <<p>>) : r \in WorktreeRoots, p \in PacketIds}

WtAbsent == [kind |-> "absent", branch |-> "", head |-> ""]
WtDir == [kind |-> "dir", branch |-> "", head |-> ""]
\* a registered worktree; branch "" is a detached HEAD
WtRegistered(b, c) == [kind |-> "worktree", branch |-> b, head |-> c]

\* Path.exists()
Exists(wts, p) == p # NoPath /\ Resolve(p) \in DOMAIN wts /\ wts[Resolve(p)].kind # "absent"

RECURSIVE SetToSeq(_)
SetToSeq(S) == IF S = {} THEN <<>> ELSE LET x == CHOOSE y \in S : TRUE IN <<x>> \o SetToSeq(S \ {x})

\* the porcelain lines of one worktree: a line is <<key, value>>, <<>> is a blank line
PorcelainEntry(path, st) ==
    << <<"worktree", path>>, <<"HEAD", st.head>>,
       IF st.branch = "" THEN <<"detached", "">> ELSE <<"branch", "refs/heads/" \o st.branch>>,
       <<>> >>

RECURSIVE PorcelainOf(_, _)
PorcelainOf(wts, paths) ==
    IF paths = <<>> THEN <<>>
    ELSE (IF wts[Head(paths)].kind = "worktree"
          THEN PorcelainEntry(Head(paths), wts[Head(paths)]) ELSE <<>>)
         \o PorcelainOf(wts, Tail(paths))

\* stdout of git worktree list --porcelain: the main worktree, then the linked ones
WorktreeListOutput(wts) ==
    PorcelainEntry(RepoRoot, [kind |-> "worktree", branch |-> "main", head |-> "c1"])
    \o PorcelainOf(wts, SetToSeq(WtPaths))

(***************************************************************************)
(* Helpers of g0_enter_work.py                                             *)
(***************************************************************************)
EmptyDict == [k \in {} |-> None]
\* `d.get(k)` is truthy (the values stored are never empty)
HasKey(d, k) == k \in DOMAIN d
DictSet(d, k, v) == [x \in (DOMAIN d) \cup {k} |-> IF x = k THEN v ELSE d[x]]

RECURSIVE ParseLines(_, _, _)
\* the loop of parse_worktree_list and its final flush
ParseLines(lines, entries, current) ==
    IF lines = <<>>
    THEN IF HasKey(current, "path")
         THEN DictSet(entries, current["path"], current) ELSE entries
    ELSE LET line == Head(lines) IN
         IF line # <<>> /\ line[1] = "worktree"
         THEN ParseLines(Tail(lines),
                         IF HasKey(current, "path")
                         THEN DictSet(entries, current["path"], current) ELSE entries,
                         DictSet(EmptyDict, "path", line[2]))
         ELSE IF line = <<>>
              THEN ParseLines(Tail(lines), entries, current)
              ELSE ParseLines(Tail(lines), entries, DictSet(current, line[1], line[2]))

\* parse_worktree_list: {} when git worktree list fails
parse_worktree_list(rc, out) ==
    IF rc # 0 THEN EmptyDict ELSE ParseLines(out, EmptyDict, EmptyDict)

\* str.startswith
StartsWith(s, prefix) == Len(s) >= Len(prefix) /\ SubSeq(s, 1, Len(prefix)) = prefix

\* worktree_branch: the short name of the entry's branch, None when it has none
worktree_branch(entry) ==
    IF ~HasKey(entry, "branch") \/ entry["branch"] = "" THEN None
    ELSE IF StartsWith(entry["branch"], "refs/heads/")
         THEN SubSeq(entry["branch"], Len("refs/heads/") + 1, Len(entry["branch"]))
         ELSE entry["branch"]

\* a contract document: worktree_policy and evidence are written flat
Contract(pid, br, base, gor, root, dny) ==
    [t |-> "obj", packet_id |-> pid, branch |-> br, base_ref |-> base,
     github_ops_required |-> gor, worktree_root |-> root,
     deny_if_worktree_exists |-> dny, out_dir |-> Absent]

\* what the contract path holds: the complete contracts, and the ones that
\* lack a required field or hold an empty one
ContractObjects ==
    { Contract(JStr("p1"), br, base, gor, root, dny) :
        br \in {JStr("b1"), JStr("b2")},
        base \in {JStr("main"), JStr("gone")},
        gor \in {Absent, JBool(TRUE)},
        root \in {Absent, JStr("tmp/../alt")},
        dny \in {Absent, JBool(FALSE)} }
    \cup
    { Contract(pid, br, base, Absent, Absent, dny) :
        pid \in {Absent, JStr(""), JStr("p1")},
        br \in {Absent, JStr("b1")},
        base \in {Absent, JStr("main")},
        dny \in {Absent, JBool(FALSE)} }

ContractFiles ==
    { [kind |-> "absent"], [kind |-> "malformed"] }
    \cup { [kind |-> "json", value |-> v] : v \in {Null, JList(<<>>), JList(<<1>>)} \cup ContractObjects }

\* a JSON object is falsy when it has no key
ObjTruthy(c) ==
    \E k \in DOMAIN c : k # "t" /\ c[k].t # "absent"

ContractTruthy(c) == IF c.t = "obj" THEN ObjTruthy(c) ELSE Truthy(c)

\* safe_read_json: <<contract, error>>; Null is Python's None
safe_read_json(file) ==
    CASE file.kind = "absent" -> <<Null, "contract not found">>
      [] file.kind = "malformed" -> <<Null, "failed to parse contract json">>
      [] OTHER -> <<file.value, None>>

\* contract.get on a value that is no dict raises AttributeError
DefaultEvidencePathRaises(contract) == ContractTruthy(contract) /\ contract.t # "obj"

\* default_evidence_path
default_evidence_path(contract) ==
    LET packet_id == IF ContractTruthy(contract) THEN StrOr(contract.packet_id, "unknown") ELSE "unknown"
        out_dir == IF ContractTruthy(contract) THEN StrOr(contract.out_dir, ".codex/out") ELSE ".codex/out"
    IN PathParts(out_dir) \o <<packet_id, "g0_enter_work.json">>

\* git_op_in_progress: some marker exists in the git directory
OpMarkers ==
    {"rebase-apply", "rebase-merge", "MERGE_HEAD", "CHERRY_PICK_HEAD", "REVERT_HEAD",
     "BISECT_LOG", "BISECT_NAMES"}
git_op_in_progress(present) == \E name \in OpMarkers : name \in present

\* an exit code that ignores the decision
ExitCodeAlwaysZero(d) == 0

\* return 0 if decision.allow else 2
ExitCode(d) == IF d.allow THEN 0 ELSE 2

RECURSIVE DenyAll(_, _)
\* the deny() calls of one step, applied in order; a call is <<code, message>>
DenyAll(d, calls) ==
    IF calls = <<>> THEN d
    ELSE DenyAll(deny(d, Head(calls)[1], Head(calls)[2]), Tail(calls))

(***************************************************************************)
(* The Gate's main(): its local variables.                                 *)
(***************************************************************************)
GateIdle ==
    [pc |-> "idle", contract_file |-> [kind |-> "absent"], evidence_out |-> None,
     pre_worktrees |-> [p \in WtPaths |-> WtAbsent],
     repo_root |-> NoPath, contract |-> Null, contract_err |-> None,
     evidence_path |-> NoPath,
     packet_id |-> "", branch |-> "", base_ref |-> "", github_ops_required |-> FALSE,
     worktree_root |-> ".codex/.worktrees", deny_if_exists |-> TRUE,
     wt_path |-> NoPath, worktree_created |-> FALSE, worktree_reused |-> FALSE,
     mismatch_detail |-> "", collision |-> FALSE, wt_list |-> EmptyDict,
     git_cmds |-> {}, list_rc |-> 0, add_ok |-> TRUE, merge_base_rc |-> 0,
     head_ref |-> "", head_sha |-> "", base_sha |-> "", base_is_ancestor |-> Null,
     push_probe |-> EmptyDict, rc |-> -1]

\* lines 238-261: the evidence record
EvidenceRecord(g, d) ==
    [stage |-> "G0",
     repo_root |-> g.repo_root,
     packet_id |-> g.packet_id,
     branch |-> g.branch,
     base_ref |-> g.base_ref,
     base_sha |-> IF g.base_sha # "" THEN g.base_sha ELSE None,
     head_ref |-> g.head_ref,
     head_sha |-> IF g.head_sha # "" THEN g.head_sha ELSE None,
     github_ops_required |-> g.github_ops_required,
     worktree_root |-> g.worktree_root,
     deny_if_worktree_exists |-> g.deny_if_exists,
     worktree_path |-> g.wt_path,
     worktree_created |-> g.worktree_created,
     worktree_reused |-> g.worktree_reused,
     collision |-> g.collision,
     mismatch_detail |-> IF g.mismatch_detail # "" THEN g.mismatch_detail ELSE None,
     base_ref_is_ancestor |-> g.base_is_ancestor,
     push_probe |-> g.push_probe,
     decision |-> IF d.allow THEN "ALLOW" ELSE "DENY",
     deny_code |-> d.deny_code,
     message |-> d.message]

\* the other process has not started its invocation
NoInvocation == [gate |-> GateIdle, decision |-> NewDecision, denyCalls |-> <<>>, g0_writes |-> <<>>]

(***************************************************************************)
(* The Gate's main(), step by step.  A step that raises ends the           *)
(* invocation at pc = "raised": main() has no exception handler.           *)
(***************************************************************************)
\* lines 124-135: arguments, git_root(), safe_read_json, evidence path, mkdir
GateLoad(file, evidence_out, in_repo, mkdir_ok) ==
    /\ gate.pc = "idle"
    /\ LET read == safe_read_json(file)
           raises == (evidence_out = None /\ DefaultEvidencePathRaises(read[1])) \/ ~mkdir_ok
       IN gate' = [GateIdle EXCEPT
              !.pc = IF raises THEN "raised" ELSE "validate",
              !.contract_file = file,
              !.evidence_out = evidence_out,
              !.pre_worktrees = worktrees,
              !.repo_root = IF in_repo THEN RepoRoot ELSE NoPath,
              !.contract = read[1],
              !.contract_err = read[2],
              !.evidence_path =
                  IF evidence_out # None THEN <<evidence_out>>
                  ELSE IF DefaultEvidencePathRaises(read[1]) THEN NoPath
                  ELSE default_evidence_path(read[1])]
    /\ decision' = NewDecision
    /\ denyCalls' = <<>>
    /\ g0_writes' = <<>>
    /\ UNCHANGED <<worktrees, local_branches, externals>>
    /\ UNCHANGED <<parked, HarnessVars>>

\* a completeness check that forgets base_ref
ContractIncompleteNoBase(packet_id, branch, base_ref) == packet_id = "" \/ branch = ""

\* line 154: not packet_id or not branch or not base_ref
ContractIncomplete(packet_id, branch, base_ref) ==
    packet_id = "" \/ branch = "" \/ base_ref = ""

\* lines 137-166: contract fields, repository presence, worktree path
GateValidate ==
    /\ gate.pc = "validate"
    /\ LET c == gate.contract IN
       IF c.t # "null" /\ c.t # "obj"
       THEN \* contract.get on a list: AttributeError
            /\ gate' = [gate EXCEPT !.pc = "raised"]
            /\ UNCHANGED <<decision, denyCalls>>
       ELSE LET isNone == c.t = "null"
                packet_id == IF isNone THEN "" ELSE StrOr(c.packet_id, "")
                branch == IF isNone THEN "" ELSE StrOr(c.branch, "")
                base_ref == IF isNone THEN "" ELSE StrOr(c.base_ref, "")
                worktree_root == IF isNone THEN ".codex/.worktrees"
                                 ELSE StrOr(c.worktree_root, ".codex/.worktrees")
                calls ==
                    (IF isNone
                     THEN << <<"WORKTREE_MISMATCH",
                               IF gate.contract_err # None THEN gate.contract_err
                               ELSE "contract parse failed">> >>
                     ELSE IF ContractIncomplete(packet_id, branch, base_ref)
                          THEN << <<"WORKTREE_MISMATCH", "contract missing packet_id/branch/base_ref">> >>
                          ELSE <<>>)
                    \o (IF gate.repo_root = NoPath
                        THEN << <<"WORKTREE_MISMATCH", "not a git repository">> >>
                        ELSE <<>>)
                wt_root == IF gate.repo_root # NoPath
                           THEN gate.repo_root \o PathParts(worktree_root) ELSE NoPath
            IN /\ gate' = [gate EXCEPT
                      !.pc = "reconcile",
                      !.packet_id = packet_id,
                      !.branch = branch,
                      !.base_ref = base_ref,
                      !.github_ops_required =
                          IF isNone THEN FALSE ELSE BoolGet(c.github_ops_required, FALSE),
                      !.worktree_root = worktree_root,
                      !.deny_if_exists =
                          IF isNone THEN TRUE ELSE BoolGet(c.deny_if_worktree_exists, TRUE),
                      !.wt_path = IF wt_root # NoPath /\ packet_id # ""
                                  THEN wt_root \o <<packet_id>> ELSE NoPath]
               /\ decision' = DenyAll(decision, calls)
               /\ denyCalls' = denyCalls \o calls
    /\ UNCHANGED <<worktrees, local_branches, g0_writes, externals>>
    /\ UNCHANGED <<parked, HarnessVars>>

\* a registry test that takes every existing path for a registered worktree
IsRegisteredAlways(wt_list, wt_path) == TRUE

\* lines 176-177: wt_path.resolve() is among the resolved registered paths
IsRegistered(wt_list, wt_path) ==
    Resolve(wt_path) \in {Resolve(p) : p \in DOMAIN wt_list}

\* line 182: wt_list.get(str(wt_path)) or wt_list.get(str(wt_path.resolve())), {} if neither
LookupEntry(wt_list, wt_path) ==
    IF HasKey(wt_list, wt_path) THEN wt_list[wt_path]
    ELSE IF HasKey(wt_list, Resolve(wt_path)) THEN wt_list[Resolve(wt_path)]
    ELSE EmptyDict

\* a collision check that denies an existing path whatever the policy says
PolicyCollisionAlways(exists, deny_if_exists) == exists

\* line 172: the policy denies an existing worktree path
PolicyCollision(exists, deny_if_exists) == exists /\ deny_if_exists

\* line 184, negated: the worktree is bound to the contract's branch
BranchMatches(wt_branch, branch) == wt_branch # None /\ wt_branch = branch

\* lines 168-188: registry, collision detection, reuse validation
GateReconcile ==
    /\ gate.pc = "reconcile"
    /\ \E list_rc \in {0, 128} :
       LET reads == decision.allow /\ gate.repo_root # NoPath
           wt_list == IF reads
                      THEN parse_worktree_list(list_rc, WorktreeListOutput(worktrees))
                      ELSE EmptyDict
           has_path == gate.wt_path # NoPath
           exists == Exists(worktrees, gate.wt_path)
           calls1 == IF decision.allow /\ has_path /\ PolicyCollision(exists, gate.deny_if_exists)
                     THEN << <<"WORKTREE_COLLISION", "worktree exists and deny_if_worktree_exists=true">> >>
                     ELSE <<>>
           d1 == DenyAll(decision, calls1)
           collision == d1.allow /\ has_path /\ exists /\ ~IsRegistered(wt_list, gate.wt_path)
           calls2 == IF collision
                     THEN << <<"WORKTREE_COLLISION", "worktree path exists but is not registered">> >>
                     ELSE <<>>
           d2 == DenyAll(d1, calls2)
           checks == d2.allow /\ has_path /\ exists
           wt_branch == worktree_branch(LookupEntry(wt_list, gate.wt_path))
           mismatch == checks /\ ~BranchMatches(wt_branch, gate.branch)
           detail == "branch mismatch: expected " \o gate.branch \o ", found " \o wt_branch
           calls3 == IF mismatch THEN << <<"WORKTREE_MISMATCH", detail>> >> ELSE <<>>
       IN /\ (~reads => list_rc = 0)
          /\ gate' = [gate EXCEPT
                 !.pc = "create",
                 !.wt_list = wt_list,
                 !.git_cmds = IF reads THEN {"worktree list"} ELSE {},
                 !.list_rc = list_rc,
                 !.collision = collision,
                 !.mismatch_detail = IF mismatch THEN detail ELSE "",
                 !.worktree_reused = checks /\ ~mismatch]
          /\ decision' = DenyAll(d2, calls3)
          /\ denyCalls' = denyCalls \o calls1 \o calls2 \o calls3
    /\ UNCHANGED <<worktrees, local_branches, g0_writes, externals>>
    /\ UNCHANGED <<parked, HarnessVars>>

\* the branch is checked out in a worktree other than `path`
CheckedOutElsewhere(wts, branch, path) ==
    branch = "main" \/ \E q \in DOMAIN wts : q # path /\ wts[q].kind = "worktree" /\ wts[q].branch = branch

\* lines 190-203: create the worktree; mkdir of the worktree root may raise
GateCreate ==
    /\ gate.pc = "create"
    /\ IF decision.allow /\ gate.wt_path # NoPath /\ ~Exists(worktrees, gate.wt_path)
       THEN \E root_mkdir_ok \in BOOLEAN, add_ok \in BOOLEAN, branch_head \in Commits :
            LET path == Resolve(gate.wt_path)
                rc_branch == IF gate.branch \in local_branches THEN 0 ELSE 1
                \* git worktree add <path> <branch>, or -b <branch> <path> <base_ref>
                \* git accepts the command, of which add_ok says whether it then succeeds
                ok_but_for_git == IF rc_branch = 0
                                  THEN ~CheckedOutElsewhere(worktrees, gate.branch, path)
                                  ELSE ResolveRef(gate.base_ref) # None
                ok == add_ok /\ ok_but_for_git
                head == IF rc_branch = 0 THEN branch_head ELSE ResolveRef(gate.base_ref)
                err == IF rc_branch = 0 THEN "fatal: branch is already checked out"
                       ELSE "fatal: invalid reference"
            IN IF ~root_mkdir_ok
               THEN /\ add_ok /\ branch_head = "c1"
                    /\ gate' = [gate EXCEPT !.pc = "raised"]
                    /\ UNCHANGED <<decision, denyCalls, worktrees, local_branches>>
               ELSE /\ (rc_branch # 0 => branch_head = "c1")
                    /\ (~ok => branch_head = "c1")
                    /\ (~add_ok => ok_but_for_git)
                    /\ gate' = [gate EXCEPT !.pc = "opguard", !.worktree_created = ok,
                                             !.add_ok = add_ok,
                                             !.git_cmds = @ \cup {"show-ref", "worktree add"}]
                    /\ decision' = IF ok THEN decision
                                   ELSE deny(decision, "WORKTREE_MISMATCH", "git worktree add failed: " \o err)
                    /\ denyCalls' = IF ok THEN denyCalls
                                    ELSE Append(denyCalls, <<"WORKTREE_MISMATCH", "git worktree add failed: " \o err>>)
                    /\ worktrees' = IF ok THEN [worktrees EXCEPT ![path] = WtRegistered(gate.branch, head)]
                                    ELSE worktrees
                    /\ local_branches' = IF ok THEN local_branches \cup {gate.branch} ELSE local_branches
       ELSE /\ gate' = [gate EXCEPT !.pc = "opguard"]
            /\ UNCHANGED <<decision, denyCalls, worktrees, local_branches>>
    /\ UNCHANGED <<g0_writes, externals>>
    /\ UNCHANGED <<parked, HarnessVars>>

\* lines 205-208: the in-progress operation guard
GateOpGuard ==
    /\ gate.pc = "opguard"
    /\ IF decision.allow /\ gate.wt_path # NoPath
       THEN \E gdir_ok \in BOOLEAN, present \in {{}, {"MERGE_HEAD"}, {"ORIG_HEAD"}} :
            LET busy == gdir_ok /\ git_op_in_progress(present)
                calls == IF busy
                         THEN << <<"GIT_OP_IN_PROGRESS", "git operation in progress in worktree">> >>
                         ELSE <<>>
            IN /\ (~gdir_ok => present = {})
               /\ gate' = [gate EXCEPT !.pc = "ancestry",
                                        !.git_cmds = @ \cup {"rev-parse --git-dir"}]
               /\ decision' = DenyAll(decision, calls)
               /\ denyCalls' = denyCalls \o calls
       ELSE /\ gate' = [gate EXCEPT !.pc = "ancestry"]
            /\ UNCHANGED <<decision, denyCalls>>
    /\ UNCHANGED <<worktrees, local_branches, g0_writes, externals>>
    /\ UNCHANGED <<parked, HarnessVars>>

\* an ancestry test that takes any successful merge-base for an ancestor
IsAncestorAnyOutput(rc, out, base_sha) == rc = 0

\* lines 222-226: base_is_ancestor from git merge-base HEAD <base_sha>
IsAncestor(rc, out, base_sha) == IF rc = 0 THEN out = base_sha ELSE FALSE

\* lines 210-228: resolve base_ref and HEAD, ancestry check
GateAncestry ==
    /\ gate.pc = "ancestry"
    /\ IF decision.allow /\ gate.wt_path # NoPath /\ gate.repo_root # NoPath /\ gate.base_ref # ""
       THEN \E head_rc \in {0, 128}, mb_rc \in {0, 1} :
            LET wt == worktrees[Resolve(gate.wt_path)]
                resolved == ResolveRef(gate.base_ref)
                base_sha == IF resolved # None THEN resolved ELSE ""
                head_sha == IF head_rc = 0 THEN wt.head ELSE ""
                head_ref == IF head_rc # 0 THEN ""
                            ELSE IF wt.branch = "" THEN "HEAD" ELSE wt.branch
                ancestor == IsAncestor(mb_rc, MergeBase(wt.head, base_sha), base_sha)
                calls == IF base_sha # "" /\ ~ancestor
                         THEN << <<"WORKTREE_MISMATCH", "base_ref is not an ancestor of worktree HEAD">> >>
                         ELSE <<>>
            IN /\ ((head_rc # 0 /\ base_sha # "") => mb_rc # 0)
               /\ (base_sha = "" => mb_rc = 0)
               /\ gate' = [gate EXCEPT
                      !.pc = "push",
                      !.base_sha = base_sha,
                      !.head_sha = head_sha,
                      !.head_ref = head_ref,
                      !.git_cmds = @ \cup {"rev-parse base_ref", "rev-parse HEAD"}
                                     \cup (IF base_sha # "" THEN {"merge-base"} ELSE {}),
                      !.merge_base_rc = mb_rc,
                      !.base_is_ancestor = IF base_sha # "" THEN JBool(ancestor) ELSE Null]
               /\ decision' = DenyAll(decision, calls)
               /\ denyCalls' = denyCalls \o calls
       ELSE /\ gate' = [gate EXCEPT !.pc = "push"]
            /\ UNCHANGED <<decision, denyCalls>>
    /\ UNCHANGED <<worktrees, local_branches, g0_writes, externals>>
    /\ UNCHANGED <<parked, HarnessVars>>

\* a probe guard that forgets the decision
ProbeGuardAnyDecision(d, wt_path) == wt_path # NoPath

\* line 231: decision.allow and wt_path
ProbeGuard(d, wt_path) == d.allow /\ wt_path # NoPath

\* a probe whose failure denies whether or not the contract requires a push
PushDeniedOnFailure(github_ops_required, rc) == rc # 0

\* line 235: github_ops_required and rc != 0
PushDenied(github_ops_required, rc) == github_ops_required /\ rc # 0

\* lines 230-236: the dry-run push probe
GatePushProbe ==
    /\ gate.pc = "push"
    /\ IF ProbeGuard(decision, gate.wt_path)
       THEN \E rc \in {0, 1} :
            LET calls == IF PushDenied(gate.github_ops_required, rc)
                         THEN << <<"GH_PUSH_DENIED", "git push --dry-run failed">> >>
                         ELSE <<>>
            IN /\ gate' = [gate EXCEPT !.pc = "write", !.push_probe = [rc |-> rc],
                                        !.git_cmds = @ \cup {"push --dry-run"}]
               /\ decision' = DenyAll(decision, calls)
               /\ denyCalls' = denyCalls \o calls
       ELSE /\ gate' = [gate EXCEPT !.pc = "write"]
            /\ UNCHANGED <<decision, denyCalls>>
    /\ UNCHANGED <<worktrees, local_branches, g0_writes, externals>>
    /\ UNCHANGED <<parked, HarnessVars>>

\* lines 238-262: build the evidence record and write it; write_text may raise
GateWrite ==
    /\ gate.pc = "write"
    /\ \E write_ok \in BOOLEAN :
       IF write_ok
       THEN /\ g0_writes' = Append(g0_writes, [path |-> gate.evidence_path,
                                               record |-> EvidenceRecord(gate, decision)])
            /\ gate' = [gate EXCEPT !.pc = "return"]
       ELSE /\ g0_writes' = g0_writes
            /\ gate' = [gate EXCEPT !.pc = "raised"]
    /\ UNCHANGED <<decision, denyCalls, worktrees, local_branches, externals>>
    /\ UNCHANGED <<parked, HarnessVars>>

\* line 264
GateReturn ==
    /\ gate.pc = "return"
    /\ gate' = [gate EXCEPT !.pc = "done", !.rc = ExitCode(decision)]
    /\ UNCHANGED <<decision, denyCalls, worktrees, local_branches, g0_writes, externals>>
    /\ UNCHANGED <<parked, HarnessVars>>

\* the process is gone: its locals with it, the repository and the files stay
GateExit ==
    /\ gate.pc \in {"done", "raised"}
    /\ gate' = GateIdle
    /\ decision' = NewDecision
    /\ denyCalls' = <<>>
    /\ g0_writes' = <<>>
    /\ UNCHANGED <<worktrees, local_branches, externals>>
    /\ UNCHANGED <<parked, HarnessVars>>

(***************************************************************************)
(* Other processes, between two invocations of the Gate.                   *)
(***************************************************************************)
GateAtRest == gate.pc = "idle"

\* a directory appears at a worktree path without being registered
ExternalMkdir(path) ==
    /\ GateAtRest /\ externals < MaxExternal
    /\ worktrees[path].kind = "absent"
    /\ worktrees' = [worktrees EXCEPT ![path] = WtDir]
    /\ externals' = externals + 1
    /\ UNCHANGED <<decision, denyCalls, gate, local_branches, g0_writes>>
    /\ UNCHANGED <<parked, HarnessVars>>

\* the runner commits in a worktree, or resets it to another commit
ExternalCommit(path, c) ==
    /\ GateAtRest /\ externals < MaxExternal
    /\ worktrees[path].kind = "worktree" /\ worktrees[path].head # c
    /\ worktrees' = [worktrees EXCEPT ![path].head = c]
    /\ externals' = externals + 1
    /\ UNCHANGED <<decision, denyCalls, gate, local_branches, g0_writes>>
    /\ UNCHANGED <<parked, HarnessVars>>

\* git checkout in a worktree: another branch, or a detached HEAD ("")
ExternalCheckout(path, b) ==
    /\ GateAtRest /\ externals < MaxExternal
    /\ worktrees[path].kind = "worktree" /\ worktrees[path].branch # b
    /\ b # "" => ~CheckedOutElsewhere(worktrees, b, path)
    /\ worktrees' = [worktrees EXCEPT ![path].branch = b]
    /\ local_branches' = IF b = "" THEN local_branches ELSE local_branches \cup {b}
    /\ externals' = externals + 1
    /\ UNCHANGED <<decision, denyCalls, gate, g0_writes>>
    /\ UNCHANGED <<parked, HarnessVars>>

\* git worktree remove
ExternalRemove(path) ==
    /\ GateAtRest /\ externals < MaxExternal
    /\ worktrees[path].kind # "absent"
    /\ worktrees' = [worktrees EXCEPT ![path] = WtAbsent]
    /\ externals' = externals + 1
    /\ UNCHANGED <<decision, denyCalls, gate, local_branches, g0_writes>>
    /\ UNCHANGED <<parked, HarnessVars>>

(***************************************************************************)
(* Helpers of collect_packet_evidence.py.  Text is a string; a character   *)
(* is a string of length one.                                              *)
(***************************************************************************)
Whitespace == {" ", "\n", "\t", "\r"}

CharAt(s, i) == SubSeq(s, i, i)

RECURSIVE LStripChars(_, _)
\* str.lstrip(chars)
LStripChars(s, chars) ==
    IF s # "" /\ CharAt(s, 1) \in chars THEN LStripChars(Tail(s), chars) ELSE s

RECURSIVE RStripChars(_, _)
\* str.rstrip(chars)
RStripChars(s, chars) ==
    IF s # "" /\ CharAt(s, Len(s)) \in chars
    THEN RStripChars(SubSeq(s, 1, Len(s) - 1), chars) ELSE s

\* str.strip()
Strip(s) == RStripChars(LStripChars(s, Whitespace), Whitespace)

RECURSIVE SplitLinesFrom(_, _)
\* str.splitlines(), `cur` being the line read so far
SplitLinesFrom(s, cur) ==
    IF s = "" THEN (IF cur = "" THEN <<>> ELSE <<cur>>)
    ELSE IF CharAt(s, 1) = "\n" THEN <<cur>> \o SplitLinesFrom(Tail(s), "")
    ELSE SplitLinesFrom(Tail(s), cur \o CharAt(s, 1))

SplitLines(s) == SplitLinesFrom(s, "")

RECURSIVE JoinLines(_)
\* "\n".join(lines)
JoinLines(lines) ==
    IF lines = <<>> THEN ""
    ELSE IF Len(lines) = 1 THEN lines[1]
    ELSE lines[1] \o "\n" \o JoinLines(Tail(lines))

\* "\n".join(lines) + ("\n" if lines else "")
LinesText(lines) == JoinLines(lines) \o (IF lines # <<>> THEN "\n" ELSE "")

RECURSIVE NonBlank(_)
\* [ln for ln in lines if ln.strip()]
NonBlank(lines) ==
    IF lines = <<>> THEN <<>>
    ELSE (IF Strip(Head(lines)) # "" THEN <<Head(lines)>> ELSE <<>>) \o NonBlank(Tail(lines))

RECURSIVE StripEach(_)
\* [ln.strip() for ln in lines if ln.strip()]
StripEach(lines) ==
    IF lines = <<>> THEN <<>>
    ELSE (IF Strip(Head(lines)) # "" THEN <<Strip(Head(lines))>> ELSE <<>>) \o StripEach(Tail(lines))

RECURSIVE Find(_, _, _)
\* str.find(sub) from position i on: the position, 0 when there is none
Find(s, sub, i) ==
    IF i + Len(sub) - 1 > Len(s) THEN 0
    ELSE IF SubSeq(s, i, i + Len(sub) - 1) = sub THEN i
    ELSE Find(s, sub, i + 1)

RECURSIVE ReplaceBackslash(_)
\* s.replace("\\", "/")
ReplaceBackslash(s) ==
    IF s = "" THEN ""
    ELSE (IF CharAt(s, 1) = "\\" THEN "/" ELSE CharAt(s, 1)) \o ReplaceBackslash(Tail(s))

\* normalize_path: s.replace("\\", "/").lstrip("./")
normalize_path(s) == LStripChars(ReplaceBackslash(s), {".", "/"})

RECURSIVE BracketEnd(_, _)
\* the position of the "]" closing the class opened at pat[1], 0 when unclosed
BracketEnd(pat, i) ==
    IF i > Len(pat) THEN 0
    ELSE IF CharAt(pat, i) = "]" /\ i > 2 + (IF Len(pat) >= 2 /\ CharAt(pat, 2) = "!" THEN 1 ELSE 0) THEN i
    ELSE BracketEnd(pat, i + 1)

RECURSIVE fnmatch(_, _)
\* fnmatch.fnmatch on POSIX: * any text, ? one character, [seq] and [!seq]
\* one character of (not of) seq; ranges within a class are not modelled
fnmatch(name, pat) ==
    IF pat = "" THEN name = ""
    ELSE LET c == CharAt(pat, 1) IN
         IF c = "*" THEN fnmatch(name, Tail(pat)) \/ (name # "" /\ fnmatch(Tail(name), pat))
         ELSE IF c = "?" THEN name # "" /\ fnmatch(Tail(name), Tail(pat))
         ELSE IF c = "[" /\ BracketEnd(pat, 2) # 0
              THEN LET e == BracketEnd(pat, 2)
                       neg == CharAt(pat, 2) = "!"
                       members == {CharAt(pat, k) : k \in (IF neg THEN 3 ELSE 2)..(e - 1)}
                   IN /\ name # ""
                      /\ (CharAt(name, 1) \in members) # neg
                      /\ fnmatch(Tail(name), SubSeq(pat, e + 1, Len(pat)))
         ELSE name # "" /\ CharAt(name, 1) = c /\ fnmatch(Tail(name), Tail(pat))

\* any(ch in s for ch in ["*", "?", "["])
HasWildcard(s) == \E i \in 1..Len(s) : CharAt(s, i) \in {"*", "?", "["}

\* the body of the loops of matches_allowed and matches_any
MatchesPattern(p, pattern) ==
    LET a_norm == normalize_path(pattern) IN
    IF HasWildcard(a_norm) THEN fnmatch(p, a_norm)
    ELSE LET a_dir == RStripChars(a_norm, {"/"}) IN
         p = a_dir \/ StartsWith(p, a_dir \o "/")

\* matches_allowed
matches_allowed(path, allowed) ==
    \E i \in 1..Len(allowed) : MatchesPattern(normalize_path(path), allowed[i])

\* matches_any
matches_any(path, patterns) ==
    \E i \in 1..Len(patterns) : MatchesPattern(normalize_path(path), patterns[i])

RECURSIVE paths_from_porcelain(_)
\* paths_from_porcelain: the path of each status line, the new one of a rename
paths_from_porcelain(lines) ==
    IF lines = <<>> THEN <<>>
    ELSE LET ln == RStripChars(Head(lines), {"\n"})
             rest == paths_from_porcelain(Tail(lines))
         IN IF Strip(ln) = "" \/ Len(ln) < 4 THEN rest
            ELSE LET path0 == Strip(SubSeq(ln, 4, Len(ln)))
                     arrow == Find(path0, " -> ", 1)
                     path == IF arrow # 0
                             THEN Strip(SubSeq(path0, arrow + 4, Len(path0)))
                             ELSE path0
                 IN (IF path # "" THEN <<path>> ELSE <<>>) \o rest

\* code points of the characters the model's texts use, in increasing order
CharOrder == "\t\n !*-./0123456789>?ABCDEFGHIJKLMNOPQRSTUVWXYZ[\\]_abcdefghijklmnopqrstuvwxyz"
OrdTable == [c \in {CharAt(CharOrder, i) : i \in 1..Len(CharOrder)} |->
                CHOOSE i \in 1..Len(CharOrder) : CharAt(CharOrder, i) = c]
Ord(c) == IF c \in DOMAIN OrdTable THEN OrdTable[c] ELSE Len(CharOrder) + 1

\* a < b on Python strings: the first differing position decides, a prefix is smaller
StrLess(a, b) ==
    \E i \in 1..Len(b) :
        /\ i <= Len(a) + 1
        /\ SubSeq(a, 1, i - 1) = SubSeq(b, 1, i - 1)
        /\ (i = Len(a) + 1 \/ Ord(CharAt(a, i)) < Ord(CharAt(b, i)))

\* the members of S in increasing order, rank[x] being how many of them precede x
ByRank(S, rank) == [i \in 1..Cardinality(S) |-> CHOOSE x \in S : rank[x] = i - 1]

\* sorted(S) for a set of strings
SortedSet(S) == ByRank(S, [x \in S |-> Cardinality({y \in S : StrLess(y, x)})])

SeqToSet(q) == {q[i] : i \in 1..Len(q)}

\* str.isdigit()
IsDigits(s) == s # "" /\ \A i \in 1..Len(s) : CharAt(s, i) \in {"0","1","2","3","4","5","6","7","8","9"}

RECURSIVE ParseInt(_)
\* int(s) for a string of digits
ParseInt(s) ==
    IF s = "" THEN 0
    ELSE 10 * ParseInt(SubSeq(s, 1, Len(s) - 1)) + (Find("0123456789", CharAt(s, Len(s)), 1) - 1)

(***************************************************************************)
(* The working copy the Harness runs git in.  Commit c2 is c1 with         *)
(* docs/readme.md rewritten (4 lines added, 8 deleted); the working tree   *)
(* may hold an edit of the tracked src/a.py and an untracked out.log.      *)
(***************************************************************************)
RepoStates == [head : {"c1", "c2"}, dirty : SUBSET {"src/a.py", "out.log"}]

IsCommit(rev) == rev \in {"c1", "c2"}

\* run(["git"] + args): <<rc, stdout, stderr>>
GitRevParseHead(r) == <<0, r.head \o "\n", "">>

GitStatusPorcelain(r) ==
    <<0,
      (IF "src/a.py" \in r.dirty THEN " M src/a.py\n" ELSE "")
      \o (IF "out.log" \in r.dirty THEN "?? out.log\n" ELSE ""),
      "">>

BadRevision == <<128, "", "fatal: bad revision\n">>

\* git diff --name-only <rev>: working tree against <rev>
GitDiffNameOnly(r, rev) ==
    IF ~IsCommit(rev) THEN BadRevision
    ELSE <<0,
           (IF rev # r.head THEN "docs/readme.md\n" ELSE "")
           \o (IF "src/a.py" \in r.dirty THEN "src/a.py\n" ELSE ""),
           "">>

\* git diff --numstat <rev>
GitDiffNumstat(r, rev) ==
    IF ~IsCommit(rev) THEN BadRevision
    ELSE <<0,
           (IF rev = r.head THEN ""
            ELSE IF rev = "c1" THEN "4\t8\tdocs/readme.md\n" ELSE "8\t4\tdocs/readme.md\n")
           \o (IF "src/a.py" \in r.dirty THEN "1\t1\tsrc/a.py\n" ELSE ""),
           "">>

\* git diff --stat <rev>
GitDiffStat(r, rev) ==
    IF ~IsCommit(rev) THEN BadRevision
    ELSE <<0,
           (IF rev # r.head THEN " docs/readme.md | 12\n" ELSE "")
           \o (IF "src/a.py" \in r.dirty THEN " src/a.py | 2\n" ELSE ""),
           "">>

\* git diff <rev>
GitDiffPatch(r, rev) ==
    IF ~IsCommit(rev) THEN BadRevision
    ELSE <<0,
           (IF rev # r.head THEN "diff --git a/docs/readme.md b/docs/readme.md\n" ELSE "")
           \o (IF "src/a.py" \in r.dirty THEN "diff --git a/src/a.py b/src/a.py\n" ELSE ""),
           "">>

\* git show --name-only --pretty=format: <rev>
GitShowNameOnly(r, rev) ==
    IF rev = "HEAD" \/ IsCommit(rev)
    THEN <<0, IF (IF rev = "HEAD" THEN r.head ELSE rev) = "c2" THEN "docs/readme.md\n" ELSE "src/a.py\n", "">>
    ELSE BadRevision

\* git_capture: stdout, or "!! <stderr>" ("" without stderr) when git fails
git_capture(res) ==
    IF res[1] # 0 THEN (IF res[3] = "" THEN "" ELSE "!! " \o Strip(res[3]))
    ELSE res[2]

(***************************************************************************)
(* Files.  A text file holds [text |-> string]; a JSON file holds          *)
(* [json |-> value], json.dumps with sorted keys being one-to-one.         *)
(***************************************************************************)
FileExists(files, path) == path \in DOMAIN files
FilePut(files, path, content) == DictSet(files, path, content)

\* write_text(p, text)
write_text(files, path, text) == FilePut(files, path, [text |-> text])
\* write_json(p, obj)
write_json(files, path, obj) == FilePut(files, path, [json |-> obj])

\* hashlib.sha256 of a file's bytes, taken to be collision-free
sha256_file(content) == [sha256_of |-> content]
\* utc_now() is always 20 characters long: a file's size does not depend on the
\* time it carries
TimeErased(content) ==
    IF "json" \in DOMAIN content /\ "generated_at_utc" \in DOMAIN content.json
    THEN [content EXCEPT !.json.generated_at_utc = <<0, 0>>]
    ELSE IF "md" \in DOMAIN content THEN [content EXCEPT !.generated = <<0, 0>>]
    ELSE content

\* st_size: the length of a text; the size of a serialized value stands for itself
FileSize(content) ==
    IF "text" \in DOMAIN content THEN [bytes |-> Len(content.text)]
    ELSE [bytes_of |-> TimeErased(content)]

\* str(path.relative_to(out_dir).as_posix())
RelPosix(rel) == IF Len(rel) = 1 THEN rel[1] ELSE rel[1] \o "/" \o rel[2]

IsPrefix(pre, q) == Len(q) >= Len(pre) /\ SubSeq(q, 1, Len(pre)) = pre

\* list_files(root): the files under root, as paths relative to it
list_files(files, root) ==
    {SubSeq(q, Len(root) + 1, Len(q)) : q \in {x \in DOMAIN files : IsPrefix(root, x) /\ x # root}}

(***************************************************************************)
(* Contract and run-metadata documents of the Harness (nested objects are  *)
(* written flat: budgets, run and evidence).                    *)
(***************************************************************************)
HContract(pid, allowed, forbidden, max_files, max_lines, test_cmd) ==
    [t |-> "obj", packet_id |-> pid, base_ref |-> JStr("main"), branch |-> JStr("b1"),
     allowed_paths |-> allowed, forbidden_outputs |-> forbidden,
     max_changed_files |-> max_files, max_changed_lines |-> max_lines,
     test_cmd |-> test_cmd, out_dir |-> Absent, include_git_diff_patch |-> Absent]

Meta(worktree_path, test_rc, dec, reasons) ==
    [t |-> "obj", worktree_path |-> worktree_path, test_rc |-> test_rc,
     decision |-> dec, reasons |-> reasons]

\* meta = {}
EmptyMeta == Meta(Absent, Absent, Absent, Absent)

\* every changed path taken for a bad one
BadPathsAll(changed_paths, allowed_paths) == changed_paths

RECURSIVE BadPaths(_, _)
\* [p for p in changed_paths if not matches_allowed(p, allowed_paths)]
BadPaths(changed_paths, allowed_paths) ==
    IF changed_paths = <<>> THEN <<>>
    ELSE (IF matches_allowed(Head(changed_paths), allowed_paths) THEN <<>> ELSE <<Head(changed_paths)>>)
         \o BadPaths(Tail(changed_paths), allowed_paths)

\* lines 302-308: sorted(set(normalize_path(p) for p in status_paths_after if it matches))
ForbiddenHit(status_paths_after, forbidden_outputs) ==
    SortedSet({normalize_path(q) : q \in {x \in SeqToSet(status_paths_after) :
                                             matches_any(normalize_path(x), forbidden_outputs)}})

\* isinstance(v, int)
IsInt(j) == j.t = "int"

\* budgets that are exceeded as soon as they are reached
BudgetViolationsAtLimit(max_files, max_lines, changed_files, total_lines) ==
    (IF IsInt(max_files) /\ changed_files >= max_files.v
     THEN << <<"max_changed_files", changed_files, max_files.v>> >> ELSE <<>>)
    \o (IF IsInt(max_lines) /\ total_lines >= max_lines.v
        THEN << <<"max_changed_lines", total_lines, max_lines.v>> >> ELSE <<>>)

\* lines 312-318
BudgetViolations(max_files, max_lines, changed_files, total_lines) ==
    (IF IsInt(max_files) /\ changed_files > max_files.v
     THEN << <<"max_changed_files", changed_files, max_files.v>> >> ELSE <<>>)
    \o (IF IsInt(max_lines) /\ total_lines > max_lines.v
        THEN << <<"max_changed_lines", total_lines, max_lines.v>> >> ELSE <<>>)

\* list(contract.get(key) or [])
ListOr(j) == IF Truthy(j) THEN j.v ELSE <<>>

\* lines 294-320: the constraint violations, in the order they are appended
Violations(allowed_paths, forbidden_outputs, changed_paths, status_paths_after, max_files, max_lines, total_lines) ==
    LET bad == BadPaths(changed_paths, allowed_paths)
        forbidden_hit == ForbiddenHit(status_paths_after, forbidden_outputs)
        budget_viol == BudgetViolations(max_files, max_lines, Len(changed_paths), total_lines)
    IN (IF allowed_paths # <<>> /\ bad # <<>>
        THEN <<[code |-> "DIFF_OUTSIDE_ALLOWED_PATHS", details |-> bad]>> ELSE <<>>)
       \o (IF forbidden_outputs # <<>> /\ forbidden_hit # <<>>
           THEN <<[code |-> "FORBIDDEN_OUTPUT_PRESENT", details |-> forbidden_hit]>> ELSE <<>>)
       \o (IF budget_viol # <<>>
           THEN <<[code |-> "DIFF_BUDGET_EXCEEDED", details |-> budget_viol]>> ELSE <<>>)

\* str.split("\t", 2)
SplitTab2(ln) ==
    LET i == Find(ln, "\t", 1) IN
    IF i = 0 THEN <<ln>>
    ELSE LET rest == SubSeq(ln, i + 1, Len(ln))
             j == Find(rest, "\t", 1)
         IN IF j = 0 THEN <<SubSeq(ln, 1, i - 1), rest>>
            ELSE <<SubSeq(ln, 1, i - 1), SubSeq(rest, 1, j - 1), SubSeq(rest, j + 1, Len(rest))>>

RECURSIVE Numstat(_)
\* lines 274-289: <<tracked_files_changed, added, deleted>> from the numstat lines
Numstat(lines) ==
    IF lines = <<>> THEN <<0, 0, 0>>
    ELSE LET ln == Strip(Head(lines))
             rest == Numstat(Tail(lines))
             parts == SplitTab2(ln)
         IN IF ln = "" \/ Len(parts) < 2 THEN rest
            ELSE <<rest[1] + 1,
                   rest[2] + (IF IsDigits(parts[1]) THEN ParseInt(parts[1]) ELSE 0),
                   rest[3] + (IF IsDigits(parts[2]) THEN ParseInt(parts[2]) ELSE 0)>>

\* a test outcome read from the exit code before the command is looked at
TestResultFromCodeFirst(test_cmd, test_rc) ==
    IF IsInt(test_rc) THEN (IF test_rc.v = 0 THEN "PASS" ELSE "FAIL")
    ELSE IF test_cmd = "" THEN "SKIP"
    ELSE "UNKNOWN"

\* lines 323-328
TestResult(test_cmd, test_rc) ==
    IF test_cmd = "" THEN "SKIP"
    ELSE IF IsInt(test_rc) THEN (IF test_rc.v = 0 THEN "PASS" ELSE "FAIL")
    ELSE "UNKNOWN"

\* a decision that takes the run-metadata's word for it
HarnessDecisionMetaWins(decision_from_meta, violations) ==
    IF decision_from_meta \in {JStr("ALLOW"), JStr("DENY")} THEN decision_from_meta.v
    ELSE IF violations # <<>> THEN "DENY" ELSE "ALLOW"

\* a decision that never reads the run-metadata
HarnessDecisionNoMeta(decision_from_meta, violations) ==
    IF violations # <<>> THEN "DENY" ELSE "ALLOW"

\* lines 331-334
HarnessDecision(decision_from_meta, violations) ==
    IF violations # <<>> THEN "DENY"
    ELSE IF decision_from_meta \in {JStr("ALLOW"), JStr("DENY")} THEN decision_from_meta.v
    ELSE "ALLOW"

\* lines 336-340
HarnessReasons(meta_reasons, meta_decision, violations) ==
    LET reasons == IF ~Truthy(meta_reasons) THEN <<>>
                   ELSE IF meta_reasons.t = "list" THEN meta_reasons.v
                   ELSE <<meta_reasons.v>>
    IN IF violations # <<>> /\ meta_decision = JStr("ALLOW")
       THEN reasons \o <<"constraint_violations">>
       ELSE reasons

\* line 430: return 0
HarnessExitCode(dec) == 0

\* the snapshot is captured again on every invocation
ReuseSnapshotNever(files, path) == FALSE

\* lines 216, 222, 230, 237: an existing raw snapshot is read, not recaptured
ReuseSnapshot(files, path) == FileExists(files, path)

(***************************************************************************)
(* The Evidence Harness: main() of collect_packet_evidence.py, one action  *)
(* per block of statements.                                                *)
(***************************************************************************)
NoMetaArg == [kind |-> "none"]

\* the directories git can be run in
DirExists(wts, p) == p = RepoRoot \/ Exists(wts, p) \/ p = <<"/work/p1">>

HarnessIdle ==
    [pc |-> "idle", generated_at |-> <<0, 0>>, meta_arg |-> NoMetaArg,
     packet_id |-> "", base_ref |-> "", branch |-> "",
     allowed_paths |-> <<>>, forbidden_outputs |-> <<>>,
     max_files |-> Absent, max_lines |-> Absent, test_cmd |-> "",
     include_patch |-> FALSE, out_dir |-> NoPath,
     meta |-> EmptyMeta, wt |-> NoPath,
     head_before |-> "", status_before |-> <<>>, head_after |-> "", status_after |-> <<>>,
     diff_name_only |-> <<>>, diff_stat |-> "", changed_paths |-> <<>>,
     status_paths_after |-> <<>>,
     violations |-> <<>>, decision |-> "", reasons |-> <<>>,
     evidence |-> Null, md |-> Null, rc |-> -1,
     contract_file |-> [kind |-> "absent"],   \* the --contract file of this invocation
     prev |-> [valid |-> FALSE]]              \* what the invocation before this one returned

RawPath(out_dir, name) == out_dir \o <<"raw", name>>

\* lines 158-164 and 170-176: the minimal bundle under "unknown"
FallbackEvidence(now, err) == [generated_at_utc |-> now, error |-> err]

\* lines 150-192: arguments, repository root, contract, output directory
HarnessStart(in_repo, file, meta_arg, mkdir_ok) ==
    /\ har.pc = "idle"
    /\ runs < MaxRuns
    /\ runs' = runs + 1
    /\ LET now == <<runs + 1, 0>> IN
       IF ~in_repo \/ file.kind # "json"
       THEN LET out_dir == IF in_repo THEN RepoRoot \o <<".codex", "out", "unknown">>
                           ELSE <<".codex", "out", "unknown">>
                err == IF ~in_repo THEN "not a git repository"
                       ELSE IF file.kind = "absent" THEN "No such file or directory"
                       ELSE "Expecting value"
            IN IF mkdir_ok
               THEN /\ out_files' = write_json(out_files, out_dir \o <<"evidence.json">>,
                                               FallbackEvidence(now, err))
                    /\ har' = [HarnessIdle EXCEPT !.prev = har.prev, !.contract_file = file, !.pc = "done", !.generated_at = now,
                                                  !.out_dir = out_dir, !.rc = 2]
               ELSE /\ har' = [HarnessIdle EXCEPT !.prev = har.prev, !.contract_file = file, !.pc = "raised", !.generated_at = now]
                    /\ UNCHANGED out_files
       ELSE IF file.value.t # "obj" \/ ~mkdir_ok
       THEN /\ har' = [HarnessIdle EXCEPT !.prev = har.prev, !.contract_file = file, !.pc = "raised", !.generated_at = now]
            /\ UNCHANGED out_files
       ELSE LET c == file.value
                packet_id == StrOr(c.packet_id, "unknown")
                out_root == StrOr(c.out_dir, ".codex/out")
            IN /\ har' = [HarnessIdle EXCEPT
                            !.prev = har.prev, !.contract_file = file,
                            !.pc = "meta", !.generated_at = now, !.meta_arg = meta_arg,
                            !.packet_id = packet_id,
                            !.base_ref = StrOr(c.base_ref, ""),
                            !.branch = StrOr(c.branch, ""),
                            !.allowed_paths = ListOr(c.allowed_paths),
                            !.forbidden_outputs = ListOr(c.forbidden_outputs),
                            !.max_files = c.max_changed_files,
                            !.max_lines = c.max_changed_lines,
                            !.test_cmd = StrOr(c.test_cmd, ""),
                            !.include_patch = BoolGet(c.include_git_diff_patch, FALSE),
                            !.out_dir = Resolve(RepoRoot \o PathParts(out_root) \o <<packet_id>>)]
               /\ UNCHANGED out_files
    /\ UNCHANGED repo
    /\ UNCHANGED GateVars

\* lines 194-210: the run-metadata record and the worktree to inspect
HarnessMeta ==
    /\ har.pc = "meta"
    /\ LET meta == IF har.meta_arg.kind = "json" THEN har.meta_arg.value ELSE EmptyMeta
           wt_candidate == RepoRoot \o <<".codex", ".worktrees", har.packet_id>>
       IN IF meta.t # "obj"
          THEN har' = [har EXCEPT !.pc = "raised"]
          ELSE har' = [har EXCEPT
                         !.pc = "before", !.meta = meta,
                         !.wt = IF Truthy(meta.worktree_path) THEN <<meta.worktree_path.v>>
                                ELSE IF Exists(worktrees, wt_candidate) THEN wt_candidate
                                ELSE RepoRoot]
    /\ UNCHANGED <<out_files, repo, runs>>
    /\ UNCHANGED GateVars

\* a head snapshot: <<value, files>> (lines 216-220, 230-234)
HeadSnapshot(files, path, r) ==
    IF ReuseSnapshot(files, path)
    THEN <<Strip(files[path].text), files>>
    ELSE LET head == Strip(git_capture(GitRevParseHead(r)))
         IN <<head, write_text(files, path, head \o (IF head # "" THEN "\n" ELSE ""))>>

\* a status snapshot: <<lines, files>> (lines 222-226, 237-241)
StatusSnapshot(files, path, r) ==
    IF ReuseSnapshot(files, path)
    THEN <<NonBlank(SplitLines(files[path].text)), files>>
    ELSE LET status == NonBlank(SplitLines(git_capture(GitStatusPorcelain(r))))
         IN <<status, write_text(files, path, LinesText(status))>>

\* the first git command of a snapshot pair fails to start: the worktree is gone
SnapshotRaises(files, head_path, status_path, wt) ==
    /\ ~DirExists(worktrees, wt)
    /\ ~(ReuseSnapshot(files, head_path) /\ ReuseSnapshot(files, status_path))

\* lines 212-226: the BEFORE snapshot
HarnessBefore ==
    /\ har.pc = "before"
    /\ LET head_path == RawPath(har.out_dir, "head_before.txt")
           status_path == RawPath(har.out_dir, "status_before.txt")
       IN IF SnapshotRaises(out_files, head_path, status_path, har.wt)
          THEN /\ har' = [har EXCEPT !.pc = "raised"]
               /\ UNCHANGED out_files
          ELSE LET h == HeadSnapshot(out_files, head_path, repo)
                   st == StatusSnapshot(h[2], status_path, repo)
               IN /\ har' = [har EXCEPT !.pc = "after", !.head_before = h[1],
                                        !.status_before = st[1]]
                  /\ out_files' = st[2]
    /\ UNCHANGED <<repo, runs>>
    /\ UNCHANGED GateVars

\* lines 228-241: the AFTER snapshot
HarnessAfter ==
    /\ har.pc = "after"
    /\ LET head_path == RawPath(har.out_dir, "head_after.txt")
           status_path == RawPath(har.out_dir, "status_after.txt")
       IN IF SnapshotRaises(out_files, head_path, status_path, har.wt)
          THEN /\ har' = [har EXCEPT !.pc = "raised"]
               /\ UNCHANGED out_files
          ELSE LET h == HeadSnapshot(out_files, head_path, repo)
                   st == StatusSnapshot(h[2], status_path, repo)
               IN /\ har' = [har EXCEPT !.pc = "diffs", !.head_after = h[1],
                                        !.status_after = st[1]]
                  /\ out_files' = st[2]
    /\ UNCHANGED <<repo, runs>>
    /\ UNCHANGED GateVars

\* lines 243-271: diffs against head_before and the changed paths
HarnessDiffs ==
    /\ har.pc = "diffs"
    /\ IF ~DirExists(worktrees, har.wt)
       THEN /\ har' = [har EXCEPT !.pc = "raised"]
            /\ UNCHANGED out_files
       ELSE LET diff_name_only ==
                    StripEach(SplitLines(git_capture(GitDiffNameOnly(repo, har.head_before))))
                diff_stat == RStripChars(git_capture(GitDiffStat(repo, har.head_before)), {"\n"})
                show_name_only_after ==
                    StripEach(SplitLines(git_capture(GitShowNameOnly(repo,
                        IF har.head_after # "" THEN har.head_after ELSE "HEAD"))))
                status_paths_after == paths_from_porcelain(har.status_after)
                changed_paths == SortedSet(SeqToSet(diff_name_only) \cup SeqToSet(status_paths_after))
                f1 == write_text(out_files, RawPath(har.out_dir, "diff_name_only.txt"),
                                 LinesText(diff_name_only))
                f2 == write_text(f1, RawPath(har.out_dir, "diffstat.txt"),
                                 diff_stat \o (IF diff_stat # "" THEN "\n" ELSE ""))
                f3 == write_text(f2, RawPath(har.out_dir, "show_name_only_after.txt"),
                                 LinesText(show_name_only_after))
                f4 == IF har.include_patch
                      THEN write_text(f3, RawPath(har.out_dir, "diff_patch.txt"),
                                      git_capture(GitDiffPatch(repo, har.head_before)))
                      ELSE f3
                f5 == write_text(f4, RawPath(har.out_dir, "changed_paths.txt"),
                                 LinesText(changed_paths))
            IN /\ har' = [har EXCEPT !.pc = "evaluate", !.diff_name_only = diff_name_only,
                                     !.diff_stat = diff_stat,
                                     !.status_paths_after = status_paths_after,
                                     !.changed_paths = changed_paths]
               /\ out_files' = f5
    /\ UNCHANGED <<repo, runs>>
    /\ UNCHANGED GateVars

\* lines 373-403: the lines of evidence.md, without the code-span marks; the JSON
\* block is kept as a value
EvidenceMd(h, stats, violations, test_result, dec, now) ==
    [md |-> <<"# Evidence - " \o h.packet_id, "",
              "- Decision: **" \o dec \o "**",
              "- Base ref: " \o h.base_ref, "",
              "## Heads",
              "- Before: " \o h.head_before,
              "- After: " \o h.head_after, "",
              "## Diff",
              "- Changed files: " \o ToString(Len(h.changed_paths)),
              "- Lines added/deleted: " \o ToString(stats[2]) \o "/" \o ToString(stats[3]), "",
              "## Tests",
              IF h.test_cmd # "" THEN "- Command: " \o h.test_cmd ELSE "- Command: *(none)*",
              "- Result: **" \o test_result \o "**">>
            \o (IF IsInt(h.meta.test_rc)
                THEN <<"- Exit code: " \o ToString(h.meta.test_rc.v)>> ELSE <<>>)
            \o <<"", "## Constraint violations">>,
     generated |-> now, worktree |-> h.wt,
     violations |-> violations]

\* a decision that a reported failing exit code turns into DENY
DecideBundleOnTests(meta, violations) ==
    IF IsInt(meta.test_rc) /\ meta.test_rc.v # 0 THEN "DENY"
    ELSE HarnessDecision(meta.decision, violations)

\* lines 331-334: of the run-metadata, the decision reads meta.get("decision") only
DecideBundle(meta, violations) == HarnessDecision(meta.decision, violations)

\* lines 342-371: the evidence dictionary
Evidence(h, stats, violations, test_result, dec, reasons, now, tests_exists) ==
    [packet_id |-> h.packet_id, generated_at_utc |-> now,
     repo |-> [root |-> RepoRoot, base_ref |-> h.base_ref,
               heads |-> [before |-> h.head_before, after |-> h.head_after]],
     worktree |-> [path |-> h.wt, branch |-> h.branch],
     status |-> [before |-> h.status_before, after |-> h.status_after],
     diff |-> [name_only |-> h.diff_name_only, stat |-> h.diff_stat,
               changed_files |-> Len(h.changed_paths),
               tracked_files_changed |-> stats[1],
               lines_added |-> stats[2], lines_deleted |-> stats[3]],
     constraints |-> [allowed_paths |-> h.allowed_paths,
                      forbidden_outputs |-> h.forbidden_outputs,
                      violations |-> violations],
     tests |-> [command |-> h.test_cmd, exit_code |-> h.meta.test_rc, result |-> test_result,
                raw_path |-> IF tests_exists THEN "raw/tests.txt" ELSE None],
     runner |-> [meta |-> h.meta],
     decision |-> dec, reasons |-> reasons,
     artifacts |-> [raw |-> <<>>, manifest |-> None, manifest_sha256 |-> None]]

\* lines 273-403: budgets, violations, test outcome, decision, reasons, evidence;
\* tick is the time utc_now() has advanced since the invocation began
HarnessEvaluate(tick) ==
    /\ har.pc = "evaluate"
    /\ IF ~DirExists(worktrees, har.wt)
       THEN har' = [har EXCEPT !.pc = "raised"]
       ELSE LET stats == Numstat(SplitLines(git_capture(GitDiffNumstat(repo, har.head_before))))
                violations == Violations(har.allowed_paths, har.forbidden_outputs,
                                         har.changed_paths, har.status_paths_after,
                                         har.max_files, har.max_lines, stats[2] + stats[3])
                test_result == TestResult(har.test_cmd, har.meta.test_rc)
                dec == DecideBundle(har.meta, violations)
                reasons == HarnessReasons(har.meta.reasons, har.meta.decision, violations)
                now == <<har.generated_at[1], tick>>
            IN har' = [har EXCEPT
                         !.pc = "write", !.violations = violations,
                         !.decision = dec, !.reasons = reasons,
                         !.evidence = Evidence(har, stats, violations, test_result, dec, reasons, now,
                                               FileExists(out_files, RawPath(har.out_dir, "tests.txt"))),
                         !.md = EvidenceMd(har, stats, violations, test_result, dec, now)]
    /\ UNCHANGED <<out_files, repo, runs>>
    /\ UNCHANGED GateVars

\* lines 405-406: evidence.json and evidence.md
HarnessWriteEvidence ==
    /\ har.pc = "write"
    /\ out_files' = FilePut(write_json(out_files, har.out_dir \o <<"evidence.json">>, har.evidence),
                            har.out_dir \o <<"evidence.md">>, har.md)
    /\ har' = [har EXCEPT !.pc = "manifest"]
    /\ UNCHANGED <<repo, runs>>
    /\ UNCHANGED GateVars

\* lines 410-414: one manifest entry per file, manifest.* left out
ManifestEntries(files, out_dir) ==
    {[path |-> RelPosix(rel), sha256 |-> sha256_file(files[out_dir \o rel]),
      size |-> FileSize(files[out_dir \o rel])] :
        rel \in {x \in list_files(files, out_dir) :
                    RelPosix(x) \notin {"manifest.json", "manifest.sha256"}}}

\* sorted(entries, key=lambda x: x["path"])
SortByPath(entries) ==
    ByRank(entries, [e \in entries |-> Cardinality({o \in entries : StrLess(o.path, e.path)})])

\* lines 408-416: manifest.json
HarnessManifest ==
    /\ har.pc = "manifest"
    /\ out_files' = write_json(out_files, har.out_dir \o <<"manifest.json">>,
                               [generated_at_utc |-> har.generated_at,
                                files |-> SortByPath(ManifestEntries(out_files, har.out_dir))])
    /\ har' = [har EXCEPT !.pc = "manifest_hash"]
    /\ UNCHANGED <<repo, runs>>
    /\ UNCHANGED GateVars

\* lines 418-419: manifest.sha256, "<hash>  manifest.json"
HarnessManifestHash ==
    /\ har.pc = "manifest_hash"
    /\ out_files' = FilePut(out_files, har.out_dir \o <<"manifest.sha256">>,
                            [hash |-> sha256_file(out_files[har.out_dir \o <<"manifest.json">>]),
                             name |-> "manifest.json"])
    /\ har' = [har EXCEPT !.pc = "rewrite"]
    /\ UNCHANGED <<repo, runs>>
    /\ UNCHANGED GateVars

\* lines 421-428: the artifacts block, and evidence.json written once more
HarnessRewrite ==
    /\ har.pc = "rewrite"
    /\ LET raw_files == {"raw/" \o RelPosix(rel) : rel \in list_files(out_files, har.out_dir \o <<"raw">>)}
           evidence == [har.evidence EXCEPT
                          !.artifacts = [raw |-> SortedSet(raw_files),
                                         manifest |-> "manifest.json",
                                         manifest_sha256 |-> "manifest.sha256"]]
       IN /\ out_files' = write_json(out_files, har.out_dir \o <<"evidence.json">>, evidence)
          /\ har' = [har EXCEPT !.pc = "return", !.evidence = evidence]
    /\ UNCHANGED <<repo, runs>>
    /\ UNCHANGED GateVars

\* line 430
HarnessReturn ==
    /\ har.pc = "return"
    /\ har' = [har EXCEPT !.pc = "done", !.rc = HarnessExitCode(har.decision)]
    /\ UNCHANGED <<out_files, repo, runs>>
    /\ UNCHANGED GateVars

\* what an invocation leaves for the next one to be compared with: its inputs,
\* the working copy it saw, and the manifest and evidence it returned with
Outcome(h, files, r) ==
    IF h.pc = "done" /\ h.decision # ""
    THEN [valid |-> TRUE, inputs |-> <<h.contract_file, h.meta_arg, r>>,
          manifest |-> files[h.out_dir \o <<"manifest.json">>].json,
          evidence |-> files[h.out_dir \o <<"evidence.json">>].json]
    ELSE [valid |-> FALSE]

\* the process is gone; the files stay
HarnessExit ==
    /\ har.pc \in {"done", "raised"}
    /\ har' = [HarnessIdle EXCEPT !.prev = Outcome(har, out_files, repo)]
    /\ UNCHANGED <<out_files, repo, runs>>
    /\ UNCHANGED GateVars

(***************************************************************************)
(* The packet's work on the working copy, between two invocations.         *)
(***************************************************************************)
\* a commit: HEAD moves from c1 to c2 and takes the tracked edit with it
RunnerCommit ==
    /\ har.pc = "idle"
    /\ repo.head = "c1"
    /\ repo' = [head |-> "c2", dirty |-> repo.dirty \ {"src/a.py"}]
    /\ UNCHANGED <<har, out_files, runs>>
    /\ UNCHANGED GateVars

\* an edit: a tracked file is modified or an untracked one appears
RunnerEdit(path) ==
    /\ har.pc = "idle"
    /\ path \notin repo.dirty
    /\ repo' = [repo EXCEPT !.dirty = @ \cup {path}]
    /\ UNCHANGED <<har, out_files, runs>>
    /\ UNCHANGED GateVars

(***************************************************************************)
(* Specifications                                                          *)
(***************************************************************************)
Init ==
    /\ decision = NewDecision
    /\ denyCalls = <<>>
    /\ gate = GateIdle
    /\ worktrees = [p \in WtPaths |-> WtAbsent]
    /\ local_branches = {}
    /\ g0_writes = <<>>
    /\ externals = 0
    /\ parked = NoInvocation
    /\ har = HarnessIdle
    /\ out_files = EmptyDict
    /\ repo = [head |-> "c1", dirty |-> {}]
    /\ runs = 0

\* one deny(code, message) call on the Decision
DenyCall(code, message) ==
    /\ Len(denyCalls) < MaxCalls
    /\ decision' = deny(decision, code, message)
    /\ denyCalls' = Append(denyCalls, <<code, message>>)
    /\ UNCHANGED <<gate, worktrees, local_branches, g0_writes, externals>>
    /\ UNCHANGED <<parked, HarnessVars>>

DenyMessages == {"first reason", "second reason"}

NextDecision == \E code \in DenyCodes, message \in DenyMessages : DenyCall(code, message)

SpecDecision == Init /\ [][NextDecision]_vars

\* the worktree paths of the packet SpecGate is about
GatePaths == {p \in WtPaths : p[Len(p)] = "p1"}

NextGate ==
    \/ \E file \in ContractFiles, evidence_out \in {None, "g0.json"},
          in_repo \in BOOLEAN, mkdir_ok \in BOOLEAN :
          GateLoad(file, evidence_out, in_repo, mkdir_ok)
    \/ GateValidate
    \/ GateReconcile
    \/ GateCreate
    \/ GateOpGuard
    \/ GateAncestry
    \/ GatePushProbe
    \/ GateWrite
    \/ GateReturn
    \/ GateExit
    \/ \E path \in GatePaths : ExternalMkdir(path)
    \/ \E path \in GatePaths, c \in Commits : ExternalCommit(path, c)
    \/ \E path \in GatePaths, b \in BranchNames \cup {""} : ExternalCheckout(path, b)
    \/ \E path \in GatePaths : ExternalRemove(path)

SpecGate == Init /\ [][NextGate]_vars

\* the scheduler takes the running process off the processor and puts the
\* other one on: both are inside main(), or before it, or after it
Switch ==
    /\ gate' = parked.gate
    /\ decision' = parked.decision
    /\ denyCalls' = parked.denyCalls
    /\ g0_writes' = parked.g0_writes
    /\ parked' = [gate |-> gate, decision |-> decision, denyCalls |-> denyCalls, g0_writes |-> g0_writes]
    /\ UNCHANGED <<worktrees, local_branches, externals>>
    /\ UNCHANGED HarnessVars

\* complete contracts for two packets under the default worktree_root and
\* out_dir; the packets may name the same branch
ConcurrentContractFiles ==
    { [kind |-> "json", value |-> Contract(JStr(pid), JStr(br), JStr("main"), gor, Absent, Absent)] :
        pid \in PacketIds, br \in BranchNames, gor \in {Absent, JBool(TRUE)} }

\* the two processes run main() once each, for different packets, in the
\* repository, without an --evidence-out override
NextConcurrent ==
    \/ \E file \in ConcurrentContractFiles :
          /\ parked.gate.pc # "idle" => file.value.packet_id # parked.gate.contract_file.value.packet_id
          /\ GateLoad(file, None, TRUE, TRUE)
    \/ GateValidate
    \/ GateReconcile
    \/ GateCreate
    \/ GateOpGuard
    \/ GateAncestry
    \/ GatePushProbe
    \/ GateWrite
    \/ GateReturn
    \/ Switch

SpecConcurrent == Init /\ [][NextConcurrent]_vars

\* contracts of a single invocation: the constraints alone and together
HarnessContracts ==
    {HContract(JStr("p1"), a, f, mf, Absent, Absent) :
        a \in {Absent, JList(<<"src/">>)}, f \in {Absent, JList(<<"*.log">>)},
        mf \in {Absent, JInt(1)}}
    \cup {HContract(JStr("p1"), Absent, Absent, mf, ml, Absent) :
             mf \in {Absent, JInt(1)}, ml \in {JInt(1), JInt(2)}}
    \cup {HContract(JStr("p1"), Absent, Absent, Absent, Absent, JStr("pytest")),
          HContract(JStr("p1"), Absent, Absent, JInt(1), Absent, JStr("pytest")),
          HContract(JStr("p1"), JList(<<"./docs", "*.py">>), Absent, Absent, Absent, Absent),
          HContract(Absent, Absent, Absent, Absent, Absent, Absent),
          [HContract(JStr("p1"), Absent, Absent, Absent, Absent, Absent)
              EXCEPT !.include_git_diff_patch = JBool(TRUE), !.out_dir = JStr("alt")]}

HarnessContractFiles ==
    {[kind |-> "absent"], [kind |-> "malformed"],
     [kind |-> "json", value |-> Null], [kind |-> "json", value |-> JList(<<1>>)]}
    \cup {[kind |-> "json", value |-> c] : c \in HarnessContracts}

HarnessMetas ==
    {Meta(Absent, Absent, d, r) :
        d \in {Absent, JStr("ALLOW"), JStr("DENY"), JStr("MAYBE")},
        r \in {Absent, JList(<<>>), JList(<<"r1">>), JStr("r1")}}
    \cup {Meta(Absent, JInt(rc), Absent, Absent) : rc \in {0, 1}}
    \cup {Meta(Absent, JInt(1), JStr("ALLOW"), Absent)}
    \cup {Meta(JStr(w), Absent, Absent, Absent) : w \in {"/work/p1", "/gone"}}

HarnessMetaArgs ==
    {NoMetaArg, [kind |-> "absent"], [kind |-> "malformed"],
     [kind |-> "json", value |-> JList(<<1>>)]}
    \cup {[kind |-> "json", value |-> m] : m \in HarnessMetas}

\* one invocation on an empty output directory, whatever is uncommitted in the working copy
InitHarness ==
    /\ decision = NewDecision
    /\ denyCalls = <<>>
    /\ gate = GateIdle
    /\ worktrees = [p \in WtPaths |-> WtAbsent]
    /\ local_branches = {}
    /\ g0_writes = <<>>
    /\ externals = 0
    /\ parked = NoInvocation
    /\ har = HarnessIdle
    /\ out_files = EmptyDict
    /\ repo \in {r \in RepoStates : r.head = "c1"}
    /\ runs = 0

HarnessSteps(ticks) ==
    \/ HarnessMeta
    \/ HarnessBefore
    \/ HarnessAfter
    \/ HarnessDiffs
    \/ \E tick \in ticks : HarnessEvaluate(tick)
    \/ HarnessWriteEvidence
    \/ HarnessManifest
    \/ HarnessManifestHash
    \/ HarnessRewrite
    \/ HarnessReturn

NextHarness ==
    \/ \E in_repo \in BOOLEAN, file \in HarnessContractFiles,
          meta_arg \in HarnessMetaArgs, mkdir_ok \in BOOLEAN :
          /\ runs = 0
          /\ HarnessStart(in_repo, file, meta_arg, mkdir_ok)
    \/ HarnessSteps({0, 1})

SpecHarness == InitHarness /\ [][NextHarness]_vars

\* successive invocations for one packet, the working copy changing in between
RerunContractFiles ==
    {[kind |-> "json", value |-> HContract(JStr("p1"), a, Absent, Absent, ml, Absent)] :
        a \in {Absent, JList(<<"src/">>)}, ml \in {Absent, JInt(10)}}

RerunMetaArgs == {NoMetaArg, [kind |-> "json", value |-> Meta(Absent, Absent, JStr("ALLOW"), Absent)]}

NextHarnessRerun ==
    \/ \E file \in RerunContractFiles, meta_arg \in RerunMetaArgs :
          HarnessStart(TRUE, file, meta_arg, TRUE)
    \/ HarnessSteps({0})
    \/ HarnessExit
    \/ RunnerCommit
    \/ \E path \in {"src/a.py", "out.log"} : RunnerEdit(path)

SpecHarnessRerun == Init /\ [][NextHarnessRerun]_vars

\* one contract document for both programs: complete for the Gate, under the
\* default or a declared worktree_root, and read by the Harness as well
PipelineContractFiles ==
    { [kind |-> "json",
       value |-> Contract(JStr("p1"), JStr("b1"), JStr("main"), Absent, root, Absent)
                 @@ HContract(JStr("p1"), Absent, Absent, Absent, Absent, Absent)] :
        root \in {Absent, JStr("alt"), JStr("tmp/../alt")} }

\* the caller runs the Gate, on ALLOW lets the runner work, then runs the
\* Harness with the same contract file and a run-metadata, if any, without
\* worktree_path
NextPipeline ==
    \/ \E file \in PipelineContractFiles :
          /\ runs = 0
          /\ GateLoad(file, None, TRUE, TRUE)
    \/ GateValidate
    \/ GateReconcile
    \/ GateCreate
    \/ GateOpGuard
    \/ GateAncestry
    \/ GatePushProbe
    \/ GateWrite
    \/ GateReturn
    \/ \E path \in {"src/a.py", "out.log"} :
          /\ gate.pc = "done" /\ gate.rc = 0 /\ runs = 0
          /\ RunnerEdit(path)
    \/ \E meta_arg \in {NoMetaArg, [kind |-> "json", value |-> Meta(Absent, JInt(0), Absent, Absent)]} :
          /\ gate.pc = "done" /\ gate.rc = 0 /\ runs = 0
          /\ HarnessStart(TRUE, gate.contract_file, meta_arg, TRUE)
    \/ HarnessSteps({0})

SpecPipeline == Init /\ [][NextPipeline]_vars

(***************************************************************************)
(* Properties of the Decision and of the Gate                              *)
(***************************************************************************)
\* the record the invocation wrote (meaningful once one was written)
G0Record == g0_writes[1].record

\* C1: on a fresh Decision, allow is true until the first deny(code, message)
\* call and false ever after, and deny_code/message are those of the first
\* call whatever calls follow.
C1_FirstDenialWins ==
    /\ denyCalls = <<>> => decision = NewDecision
    /\ denyCalls # <<>> =>
          decision = [allow |-> FALSE, deny_code |-> denyCalls[1][1], message |-> denyCalls[1][2]]

\* a second call with another code and another message has been ignored
C1_Witness ==
    /\ Len(denyCalls) >= 2
    /\ denyCalls[2][1] # denyCalls[1][1] /\ denyCalls[2][2] # denyCalls[1][2]
    /\ decision.deny_code = denyCalls[1][1]

\* C3: every Gate invocation that has ended, by returning or by an exception
\* of an earlier step, has written its evidence record exactly once.
C3_RecordOnEveryPath ==
    gate.pc \in {"done", "raised"} => Len(g0_writes) = 1

\* the base_ref commit is not an ancestor of the worktree's HEAD, as git has it
NotAncestor ==
    \/ gate.merge_base_rc # 0
    \/ MergeBase(worktrees[Resolve(gate.wt_path)].head, ResolveRef(gate.base_ref))
          # ResolveRef(gate.base_ref)

\* C7: when the checks before the ancestry check passed (so that git merge-base
\* ran) and the resolved base_ref commit is not an ancestor of the worktree's
\* HEAD, the decision is DENY with WORKTREE_MISMATCH and no push probe runs.
C7_AncestryDenies ==
    (/\ gate.pc \in {"push", "write", "return", "done"}
     /\ "merge-base" \in gate.git_cmds
     /\ NotAncestor)
    => /\ ~decision.allow
       /\ decision.deny_code = "WORKTREE_MISMATCH"
       /\ gate.pc \in {"write", "return", "done"} => gate.push_probe = EmptyDict
       /\ gate.pc \in {"return", "done"} =>
             G0Record.decision = "DENY" /\ G0Record.deny_code = "WORKTREE_MISMATCH"

\* a diverged worktree was denied although a push was required and never probed
C7_Witness ==
    /\ gate.pc = "done"
    /\ "merge-base" \in gate.git_cmds
    /\ gate.merge_base_rc = 0
    /\ gate.head_sha = "d1"
    /\ gate.github_ops_required
    /\ G0Record.deny_code = "WORKTREE_MISMATCH"
    /\ G0Record.message = "base_ref is not an ancestor of worktree HEAD"

\* the contract file is absent or unparseable, or the contract lacks one of
\* packet_id, branch, base_ref or holds an empty one
BadContract(file) ==
    \/ file.kind \in {"absent", "malformed"}
    \/ /\ file.kind = "json" /\ file.value.t = "obj"
       /\ \/ file.value.packet_id \in {Absent, JStr("")}
          \/ file.value.branch \in {Absent, JStr("")}
          \/ file.value.base_ref \in {Absent, JStr("")}

\* the contract is complete, and its worktree existed before the invocation,
\* is listed by git worktree list and is bound to the contract's branch
ReusableWorktree ==
    /\ ~BadContract(gate.contract_file)
    /\ gate.wt_path # NoPath
    /\ gate.list_rc = 0
    /\ gate.pre_worktrees[Resolve(gate.wt_path)].kind = "worktree"
    /\ gate.pre_worktrees[Resolve(gate.wt_path)].branch = gate.branch

\* none of the in-progress, ancestry and push checks denied
LaterChecksPass ==
    \A i \in 1..Len(denyCalls) :
        denyCalls[i][2] \notin {"git operation in progress in worktree",
                                "base_ref is not an ancestor of worktree HEAD",
                                "git push --dry-run failed"}

ReusedAndAllowed ==
    /\ G0Record.worktree_reused /\ ~G0Record.worktree_created
    /\ G0Record.decision = "ALLOW"
    /\ gate.rc = 0
    /\ "worktree add" \notin gate.git_cmds
    /\ worktrees = gate.pre_worktrees

\* C8 as stated: for every contract, an invocation that finds the worktree
\* existing, registered and bound to the contract's branch, with the later
\* checks passing, reuses it and allows.
C8_ReuseForEveryContract ==
    (gate.pc = "done" /\ ReusableWorktree /\ LaterChecksPass) => ReusedAndAllowed

\* C8, amended: the same for every contract whose
\* worktree_policy.deny_if_worktree_exists is false.
C8_ReuseWhenPolicyPermits ==
    (gate.pc = "done" /\ ReusableWorktree /\ LaterChecksPass /\ ~gate.deny_if_exists)
    => ReusedAndAllowed

\* a worktree under a worktree_root written with ".." was reused
C8_Witness ==
    /\ gate.pc = "done" /\ ReusableWorktree /\ LaterChecksPass /\ ~gate.deny_if_exists
    /\ gate.worktree_root = "tmp/../alt"
    /\ G0Record.worktree_reused
    /\ G0Record.base_ref_is_ancestor = JBool(TRUE)

\* C9: for such a contract the decision is DENY with WORKTREE_MISMATCH from
\* the contract check on, so is the record, and no git command has run on the
\* worktree: none is listed, created or probed.
C9_BadContractDenied ==
    (gate.pc # "idle" /\ BadContract(gate.contract_file))
    => /\ gate.git_cmds = {}
       /\ worktrees = gate.pre_worktrees
       /\ ~gate.worktree_created /\ ~gate.worktree_reused
       /\ gate.push_probe = EmptyDict
       /\ gate.pc \in {"reconcile", "create", "opguard", "ancestry", "push", "write", "return", "done"}
             => ~decision.allow /\ decision.deny_code = "WORKTREE_MISMATCH"
       /\ gate.pc \in {"return", "done"}
             => G0Record.decision = "DENY" /\ G0Record.deny_code = "WORKTREE_MISMATCH"
       /\ gate.pc = "done" => gate.rc = 2

\* a contract with packet_id and branch but no base_ref was denied, in a
\* repository where its worktree already exists
C9_Witness ==
    /\ gate.pc = "done"
    /\ gate.contract_file.kind = "json" /\ gate.contract_file.value.t = "obj"
    /\ gate.contract_file.value.packet_id = JStr("p1")
    /\ gate.contract_file.value.branch = JStr("b1")
    /\ gate.contract_file.value.base_ref = Absent
    /\ gate.repo_root # NoPath
    /\ \E p \in WtPaths : worktrees[p].kind = "worktree"
    /\ G0Record.deny_code = "WORKTREE_MISMATCH"

\* C10: when the Gate returns, exit code 0 goes with a record of decision ALLOW
\* and null deny_code and message, exit code 2 with a record of decision DENY
\* and a deny_code among the four deny codes, and there is no other exit code.
C10_ExitCodeMatchesRecord ==
    gate.pc = "done" =>
        /\ Len(g0_writes) = 1
        /\ gate.rc \in {0, 2}
        /\ gate.rc = 0 <=> (/\ G0Record.decision = "ALLOW"
                            /\ G0Record.deny_code = None
                            /\ G0Record.message = None)
        /\ gate.rc = 2 <=> (/\ G0Record.decision = "DENY"
                            /\ G0Record.deny_code \in DenyCodes)

\* the Gate returned 2 after the push probe denied
C10_Witness ==
    /\ gate.pc = "done" /\ gate.rc = 2
    /\ G0Record.decision = "DENY" /\ G0Record.deny_code = "GH_PUSH_DENIED"
    /\ G0Record.push_probe = [rc |-> 1]

\* the contract and repository checks pass, and the worktree path existed on
\* disk when the invocation started
PathExisted ==
    /\ gate.contract_file.kind = "json" /\ gate.contract_file.value.t = "obj"
    /\ ~BadContract(gate.contract_file)
    /\ gate.repo_root # NoPath
    /\ gate.pre_worktrees[Resolve(gate.wt_path)].kind # "absent"

\* worktree_policy.deny_if_worktree_exists, true unless the contract says otherwise
PolicyDenies == gate.contract_file.value.deny_if_worktree_exists \in {Absent, JBool(TRUE)}

\* the path is a plain directory: git worktree list has no entry for it
Unregistered == gate.pre_worktrees[Resolve(gate.wt_path)].kind = "dir"

\* C16: when the contract and repository checks pass and the worktree path
\* exists, a true deny_if_worktree_exists gives DENY with WORKTREE_COLLISION,
\* and so does a false one when the path is not a registered worktree; the
\* path is left as it was and worktree_created and worktree_reused are false.
C16_ExistingPathCollides ==
    (gate.pc = "done" /\ PathExisted /\ (PolicyDenies \/ Unregistered))
    => /\ G0Record.decision = "DENY"
       /\ G0Record.deny_code = "WORKTREE_COLLISION"
       /\ ~G0Record.worktree_created /\ ~G0Record.worktree_reused
       /\ "worktree add" \notin gate.git_cmds
       /\ worktrees = gate.pre_worktrees
       /\ G0Record.collision = (~PolicyDenies)

\* a plain directory at the worktree path was denied although the policy
\* permits reuse
C16_Witness ==
    /\ gate.pc = "done" /\ PathExisted /\ ~PolicyDenies /\ Unregistered
    /\ G0Record.deny_code = "WORKTREE_COLLISION"
    /\ G0Record.message = "worktree path exists but is not registered"
    /\ G0Record.collision

\* no check before the push probe denied
EarlierChecksPass ==
    \A i \in 1..Len(denyCalls) : denyCalls[i] = <<"GH_PUSH_DENIED", "git push --dry-run failed">>

\* the contract's github_ops_required
PushRequired == Truthy(gate.contract_file.value.github_ops_required)

\* C17: when all earlier checks pass the push probe runs and its result is in
\* the record; a failed probe gives DENY with GH_PUSH_DENIED when
\* github_ops_required is true, and the decision is ALLOW when it is false,
\* whether the probe succeeded or failed.
C17_PushProbe ==
    (gate.pc = "done" /\ EarlierChecksPass)
    => /\ "push --dry-run" \in gate.git_cmds
       /\ G0Record.push_probe # EmptyDict
       /\ G0Record.push_probe.rc \in {0, 1}
       /\ (PushRequired /\ G0Record.push_probe.rc # 0)
             => /\ G0Record.decision = "DENY" /\ G0Record.deny_code = "GH_PUSH_DENIED"
                /\ gate.rc = 2
       /\ ~PushRequired
             => /\ G0Record.decision = "ALLOW" /\ G0Record.deny_code = None
                /\ gate.rc = 0

\* a failed probe was recorded and the invocation allowed
C17_Witness ==
    /\ gate.pc = "done" /\ EarlierChecksPass
    /\ ~PushRequired
    /\ G0Record.push_probe = [rc |-> 1]
    /\ G0Record.decision = "ALLOW"

\* the position, in the order of main(), of the check that made a deny() call
CheckOf(message) ==
    CASE message \in {"contract not found", "failed to parse contract json", "contract parse failed",
                      "contract missing packet_id/branch/base_ref", "not a git repository"} -> 1
      [] message \in {"worktree exists and deny_if_worktree_exists=true",
                      "worktree path exists but is not registered"} -> 2
      [] StartsWith(message, "branch mismatch: ") -> 2
      [] StartsWith(message, "git worktree add failed: ") -> 3
      [] message = "git operation in progress in worktree" -> 4
      [] message = "base_ref is not an ancestor of worktree HEAD" -> 5
      [] message = "git push --dry-run failed" -> 6

\* the position of the step that runs a git command
StepOf(cmd) ==
    CASE cmd = "worktree list" -> 2
      [] cmd \in {"show-ref", "worktree add"} -> 3
      [] cmd = "rev-parse --git-dir" -> 4
      [] cmd \in {"rev-parse base_ref", "rev-parse HEAD", "merge-base"} -> 5
      [] cmd = "push --dry-run" -> 6

\* the check of the first denial
FirstDenial == CheckOf(denyCalls[1][2])

\* C19: once a check has denied, no later step acts: no git command of a later
\* step has run, a worktree exists only if it was created before the denial,
\* and ancestry and push results stay empty; the record the invocation writes
\* carries the code and message of the first denial and the values the earlier
\* steps left.
C19_DeniedSkipsLaterSteps ==
    denyCalls # <<>> =>
       /\ \A cmd \in gate.git_cmds : StepOf(cmd) <= FirstDenial
       /\ "worktree list" \in gate.git_cmds => FirstDenial >= 2
       /\ worktrees # gate.pre_worktrees => FirstDenial > 3 /\ gate.worktree_created
       /\ FirstDenial < 5 =>
             gate.base_sha = "" /\ gate.head_sha = "" /\ gate.base_is_ancestor = Null
       /\ FirstDenial < 6 => gate.push_probe = EmptyDict
       /\ Len(g0_writes) = 1 =>
             /\ G0Record.decision = "DENY"
             /\ G0Record.deny_code = denyCalls[1][1]
             /\ G0Record.message = denyCalls[1][2]
             /\ G0Record.worktree_created = (worktrees # gate.pre_worktrees)
             /\ G0Record.worktree_created = gate.worktree_created
             /\ G0Record.worktree_reused = gate.worktree_reused
             /\ G0Record.push_probe = gate.push_probe

\* a worktree was created, the ancestry check denied, and the record shows
\* both while no push was probed
C19_Witness ==
    /\ gate.pc = "done"
    /\ denyCalls # <<>> /\ FirstDenial = 5
    /\ gate.github_ops_required
    /\ worktrees # gate.pre_worktrees
    /\ G0Record.worktree_created
    /\ G0Record.deny_code = "WORKTREE_MISMATCH"
    /\ G0Record.base_ref_is_ancestor = JBool(FALSE)
    /\ G0Record.push_probe = EmptyDict

\* C22: every evidence record of the Gate with decision ALLOW has
\* base_ref_is_ancestor true and a base_sha and a head_sha: the Gate never
\* allows when base_ref did not resolve to a commit or when the ancestry check
\* did not run, whether it created the worktree or reused it.
C22_AllowImpliesAncestry ==
    (Len(g0_writes) = 1 /\ G0Record.decision = "ALLOW")
    => /\ G0Record.base_ref_is_ancestor = JBool(TRUE)
       /\ G0Record.base_sha # None
       /\ G0Record.head_sha # None

(***************************************************************************)
(* Properties of the Harness                                               *)
(***************************************************************************)
\* evidence.json as it is on disk in the invocation's output directory
Bundle == out_files[har.out_dir \o <<"evidence.json">>].json

\* the invocation returned after evaluating the constraints
Returned == har.pc = "done" /\ har.decision # ""

\* C2: every Harness invocation that returns exits with 0 exactly when the
\* decision in its evidence bundle is ALLOW, and with 2 whenever it is DENY.
C2_ExitCodeFollowsDecision ==
    Returned =>
        /\ (har.rc = 0) <=> (Bundle.decision = "ALLOW")
        /\ Bundle.decision = "DENY" => har.rc = 2

\* C4: with at least one violation the bundle's decision is DENY whatever the
\* run-metadata says, and when the run-metadata says ALLOW the bundle's reasons
\* are the run-metadata's reasons followed by "constraint_violations".
C4_ViolationsOverrideMeta ==
    (Returned /\ har.violations # <<>>) =>
        /\ Bundle.decision = "DENY"
        /\ Bundle.constraints.violations = har.violations
        /\ har.meta.decision = JStr("ALLOW") =>
              /\ har.meta.reasons.t = "list" =>
                    Bundle.reasons = har.meta.reasons.v \o <<"constraint_violations">>
              /\ har.meta.reasons.t = "absent" =>
                    Bundle.reasons = <<"constraint_violations">>
              /\ har.meta.reasons.t = "str" =>
                    Bundle.reasons = <<har.meta.reasons.v, "constraint_violations">>

C4_Witness ==
    /\ Returned
    /\ har.violations # <<>>
    /\ har.meta.decision = JStr("ALLOW")
    /\ har.meta.reasons = JList(<<"r1">>)
    /\ Bundle.decision = "DENY"
    /\ Bundle.reasons = <<"r1", "constraint_violations">>

\* C5: without a violation the bundle's decision is the run-metadata's when
\* that is "ALLOW" or "DENY", and ALLOW when there is no run-metadata or it
\* carries no such decision; the bundle's reasons are the run-metadata's list
\* as it is (empty without one, a bare string as a list of one).
C5_NoViolationHonoursMeta ==
    (Returned /\ har.violations = <<>>) =>
        /\ har.meta.decision = JStr("ALLOW") => Bundle.decision = "ALLOW"
        /\ har.meta.decision = JStr("DENY") => Bundle.decision = "DENY"
        /\ har.meta.decision \notin {JStr("ALLOW"), JStr("DENY")} => Bundle.decision = "ALLOW"
        /\ har.meta_arg.kind # "json" => Bundle.decision = "ALLOW" /\ Bundle.reasons = <<>>
        /\ har.meta.reasons.t = "list" => Bundle.reasons = har.meta.reasons.v
        /\ har.meta.reasons.t = "absent" => Bundle.reasons = <<>>
        /\ har.meta.reasons.t = "str" => Bundle.reasons = <<har.meta.reasons.v>>

C5_Witness ==
    /\ Returned
    /\ har.violations = <<>>
    /\ har.meta.decision = JStr("DENY")
    /\ har.meta.reasons = JList(<<"r1">>)
    /\ Bundle.decision = "DENY"
    /\ Bundle.reasons = <<"r1">>

\* the BEFORE snapshot files of packet p1
BeforeFiles == {RawPath(<<"repo", ".codex", "out", "p1">>, name) :
                   name \in {"head_before.txt", "status_before.txt"}}

HeadBeforeFile == RawPath(<<"repo", ".codex", "out", "p1">>, "head_before.txt")
StatusBeforeFile == RawPath(<<"repo", ".codex", "out", "p1">>, "status_before.txt")

\* C6: over successive invocations for one packet, raw/head_before.txt and
\* raw/status_before.txt keep their contents from the moment they exist, whatever
\* happens to the working copy in between, and every invocation that has taken
\* its BEFORE snapshot holds, and reports in its bundle, the stored values.
C6_BeforeSnapshotKept ==
    /\ [][\A f \in BeforeFiles :
             f \in DOMAIN out_files => f \in DOMAIN out_files' /\ out_files'[f] = out_files[f]]_vars
    /\ [](har.pc \in {"after", "diffs", "evaluate", "write", "manifest", "manifest_hash",
                      "rewrite", "return"} =>
             /\ har.head_before = Strip(out_files[HeadBeforeFile].text)
             /\ har.status_before = NonBlank(SplitLines(out_files[StatusBeforeFile].text)))
    /\ [](Returned =>
             /\ Bundle.repo.heads.before = Strip(out_files[HeadBeforeFile].text)
             /\ Bundle.status.before = NonBlank(SplitLines(out_files[StatusBeforeFile].text)))

\* a second invocation has returned after a commit and an edit: the live head
\* and status differ from the stored ones, and the bundle reports the stored ones
C6_Witness ==
    /\ Returned
    /\ runs = 2
    /\ repo.head = "c2"
    /\ repo.dirty # {}
    /\ out_files[HeadBeforeFile].text = "c1\n"
    /\ out_files[StatusBeforeFile].text = ""
    /\ Bundle.repo.heads.before = "c1"
    /\ Bundle.status.before = <<>>

\* the output directory of packet p1
PacketOut == <<"repo", ".codex", "out", "p1">>

\* C11: whenever manifest.json and manifest.sha256 both exist in the packet's
\* output directory, at any step of any invocation, the hash stored in
\* manifest.sha256 is the hash of manifest.json as it is on disk.
C11_ManifestHashCurrent ==
    (/\ PacketOut \o <<"manifest.json">> \in DOMAIN out_files
     /\ PacketOut \o <<"manifest.sha256">> \in DOMAIN out_files)
    => out_files[PacketOut \o <<"manifest.sha256">>].hash
          = sha256_file(out_files[PacketOut \o <<"manifest.json">>])

\* manifest.json as it is on disk in the invocation's output directory
Manifest == out_files[har.out_dir \o <<"manifest.json">>].json

\* this invocation returned right after another one that returned, with the
\* same contract, the same run-metadata and the working copy unchanged
RerunUnchanged ==
    /\ Returned
    /\ har.prev.valid
    /\ har.prev.inputs = <<har.contract_file, har.meta_arg, repo>>

\* C12: such a second invocation returns with the same manifest entries (paths,
\* hashes, sizes) as the first and, the generation timestamp apart, with the
\* same evidence.
C12_RerunReproduces ==
    RerunUnchanged =>
        /\ Manifest.files = har.prev.manifest.files
        /\ [Bundle EXCEPT !.generated_at_utc = <<0, 0>>]
              = [har.prev.evidence EXCEPT !.generated_at_utc = <<0, 0>>]

\* the invocation has ended, by returning or by an exception
Ended == har.pc \in {"done", "raised"}

\* C13: an invocation that has ended has written an evidence.json (the output
\* directory was empty when it began); when it ended without evaluating the
\* contract it returned 2 and the evidence.json under "unknown" carries the error.
C13_EvidenceOnEveryPath ==
    Ended =>
        /\ \E f \in DOMAIN out_files : f[Len(f)] = "evidence.json"
        /\ (har.pc = "done" /\ har.decision = "") =>
              /\ har.rc = 2
              /\ har.out_dir[Len(har.out_dir)] = "unknown"
              /\ "error" \in DOMAIN Bundle

\* the violations of the bundle that carry this code
ViolationsWith(code) ==
    {i \in 1..Len(Bundle.constraints.violations) : Bundle.constraints.violations[i].code = code}

\* the changed paths that match none of the contract's allowed patterns
OutsideAllowed == {p \in SeqToSet(har.changed_paths) : ~matches_allowed(p, har.allowed_paths)}

\* C14: with a non-empty allowed_paths, DIFF_OUTSIDE_ALLOWED_PATHS is reported
\* exactly when some changed path matches no allowed pattern, once, with
\* bad_paths the sorted list of exactly those paths, and the decision is DENY;
\* with allowed_paths empty or absent it is never reported.
C14_OutsideAllowedPaths ==
    Returned =>
        /\ ViolationsWith("DIFF_OUTSIDE_ALLOWED_PATHS") # {}
              <=> (har.allowed_paths # <<>> /\ OutsideAllowed # {})
        /\ Cardinality(ViolationsWith("DIFF_OUTSIDE_ALLOWED_PATHS")) <= 1
        /\ \A i \in ViolationsWith("DIFF_OUTSIDE_ALLOWED_PATHS") :
              /\ Bundle.constraints.violations[i].details = SortedSet(OutsideAllowed)
              /\ Bundle.decision = "DENY"
        /\ Bundle.constraints.allowed_paths = har.allowed_paths
        /\ har.changed_paths = SplitLines(out_files[RawPath(har.out_dir, "changed_paths.txt")].text)

\* allowed_paths ["src/"] with a change to src/a.py and an untracked out.log:
\* only out.log is reported
C14_Witness ==
    /\ Returned
    /\ har.allowed_paths = <<"src/">>
    /\ har.changed_paths = <<"out.log", "src/a.py">>
    /\ Len(Bundle.constraints.violations) = 1
    /\ Bundle.constraints.violations[1] = [code |-> "DIFF_OUTSIDE_ALLOWED_PATHS", details |-> <<"out.log">>]
    /\ Bundle.decision = "DENY"

\* the number of changed paths and of changed lines the bundle reports
ObservedFiles == Bundle.diff.changed_files
ObservedLines == Bundle.diff.lines_added + Bundle.diff.lines_deleted

FilesExceeded == har.max_files.t = "int" /\ har.max_files.v < ObservedFiles
LinesExceeded == har.max_lines.t = "int" /\ har.max_lines.v < ObservedLines

\* C15: DIFF_BUDGET_EXCEEDED is reported exactly when max_changed_files is an
\* integer below the number of changed paths or max_changed_lines is an integer
\* below lines added plus lines deleted, once, with one [metric, observed, limit]
\* triple per exceeded metric, files first, and none for a metric at or under
\* its limit.
C15_BudgetExceeded ==
    Returned =>
        /\ ObservedFiles = Len(har.changed_paths)
        /\ ViolationsWith("DIFF_BUDGET_EXCEEDED") # {} <=> (FilesExceeded \/ LinesExceeded)
        /\ Cardinality(ViolationsWith("DIFF_BUDGET_EXCEEDED")) <= 1
        /\ \A i \in ViolationsWith("DIFF_BUDGET_EXCEEDED") :
              LET triples == Bundle.constraints.violations[i].details IN
              /\ Len(triples) = (IF FilesExceeded THEN 1 ELSE 0) + (IF LinesExceeded THEN 1 ELSE 0)
              /\ FilesExceeded => triples[1] = <<"max_changed_files", ObservedFiles, har.max_files.v>>
              /\ LinesExceeded => triples[Len(triples)] = <<"max_changed_lines", ObservedLines, har.max_lines.v>>
              /\ Bundle.decision = "DENY"

\* two changed paths against a limit of one is reported, two changed lines
\* against a limit of two is not
C15_Witness ==
    /\ Returned
    /\ har.max_files = JInt(1) /\ har.max_lines = JInt(2)
    /\ ObservedFiles = 2 /\ ObservedLines = 2
    /\ Len(Bundle.constraints.violations) = 1
    /\ Bundle.constraints.violations[1]
          = [code |-> "DIFF_BUDGET_EXCEEDED", details |-> << <<"max_changed_files", 2, 1>> >>]

\* the files under the output directory, the two manifest files left out
BundleFiles ==
    {rel \in list_files(out_files, har.out_dir) : RelPosix(rel) \notin {"manifest.json", "manifest.sha256"}}

\* the manifest entry of a file describes the file as it is on disk
EntryCurrent(rel) ==
    \E i \in 1..Len(Manifest.files) :
        /\ Manifest.files[i].path = RelPosix(rel)
        /\ Manifest.files[i].sha256 = sha256_file(out_files[har.out_dir \o rel])
        /\ Manifest.files[i].size = FileSize(out_files[har.out_dir \o rel])

\* C20: when an invocation returns, manifest.json lists exactly the files
\* under the output directory other than manifest.json and manifest.sha256,
\* sorted by relative path, and the hash and size of each entry are those of
\* the file on disk, evidence.json included.
C20_ManifestMatchesDisk ==
    Returned =>
        /\ Len(Manifest.files) = Cardinality(BundleFiles)
        /\ \A i, j \in 1..Len(Manifest.files) :
              i < j => StrLess(Manifest.files[i].path, Manifest.files[j].path)
        /\ \A rel \in BundleFiles : EntryCurrent(rel)

\* the two invocations, the running one first
Invocations ==
    <<[gate |-> gate, decision |-> decision, denyCalls |-> denyCalls, g0_writes |-> g0_writes], parked>>

\* both invocations have returned, for two different non-empty packet_ids
BothReturned ==
    /\ \A i \in 1..2 : Invocations[i].gate.pc = "done"
    /\ \A i \in 1..2 : Invocations[i].gate.packet_id # ""
    /\ Invocations[1].gate.packet_id # Invocations[2].gate.packet_id

\* what the invocation does alone in this repository at the creation step:
\* base_ref resolves, so git worktree add -b succeeds unless git itself fails
CreatesAlone(inv) == inv.gate.add_ok /\ ResolveRef(inv.gate.base_ref) # None

\* C18: two concurrent Gate invocations for two different non-empty
\* packet_ids, under the same worktree_root and out_dir and without an
\* evidence path override, write different evidence files and work on
\* different worktree directories, and the decision each one records is the
\* one it records alone, however their steps interleave: an invocation that
\* reaches the creation step creates its worktree exactly when it would alone.
C18_PacketsIsolated ==
    BothReturned =>
        /\ Invocations[1].g0_writes[1].path # Invocations[2].g0_writes[1].path
        /\ Resolve(Invocations[1].gate.wt_path) # Resolve(Invocations[2].gate.wt_path)
        /\ \A i \in 1..2 :
              "worktree add" \in Invocations[i].gate.git_cmds =>
                 (Invocations[i].g0_writes[1].record.worktree_created = CreatesAlone(Invocations[i]))

\* the contract of the invocation declares a test command
TestConfigured == Truthy(har.contract_file.value.test_cmd)

\* test_rc of the run-metadata document, Absent when no document was read
ReportedRc == IF har.meta_arg.kind = "json" THEN har.meta_arg.value.test_rc ELSE Absent

\* C21: the test result of the bundle is SKIP exactly when the contract has no
\* test command, whatever exit code the run-metadata reports; PASS exactly
\* when it has one and the reported exit code is the integer 0; FAIL exactly
\* when it has one and the reported exit code is another integer; UNKNOWN
\* exactly when it has one and no integer exit code is reported.
C21_TestResult ==
    Returned =>
        /\ Bundle.tests.result \in {"SKIP", "PASS", "FAIL", "UNKNOWN"}
        /\ Bundle.tests.result = "SKIP" <=> ~TestConfigured
        /\ Bundle.tests.result = "PASS" <=> (TestConfigured /\ ReportedRc = JInt(0))
        /\ Bundle.tests.result = "FAIL" <=>
              (TestConfigured /\ ReportedRc.t = "int" /\ ReportedRc.v # 0)
        /\ Bundle.tests.result = "UNKNOWN" <=> (TestConfigured /\ ReportedRc.t # "int")
        /\ Bundle.tests.exit_code = ReportedRc

\* a reported exit code of 0 without a test command gave SKIP
C21_Witness ==
    /\ Returned
    /\ ~TestConfigured /\ ReportedRc = JInt(0)
    /\ Bundle.tests.result = "SKIP"
    /\ Bundle.tests.exit_code = JInt(0)

\* the decision as a function of the violation list and of the run-metadata
\* decision, and of nothing else
DecisionFrom(violations, meta_decision) ==
    IF violations # <<>> THEN "DENY"
    ELSE IF meta_decision \in {JStr("ALLOW"), JStr("DENY")} THEN meta_decision.v
    ELSE "ALLOW"

\* C23: the decision of the bundle is a function of its violation list and of
\* the decision of the run-metadata only; it is the same whether the test
\* result is PASS, FAIL, SKIP or UNKNOWN, so that a failing exit code of a
\* configured test command does not by itself give DENY.
C23_TestsDoNotDecide ==
    Returned =>
        /\ Bundle.decision = DecisionFrom(Bundle.constraints.violations, Bundle.runner.meta.decision)
        /\ (/\ Bundle.tests.result = "FAIL"
            /\ Bundle.constraints.violations = <<>>
            /\ Bundle.runner.meta.decision # JStr("DENY")) => Bundle.decision = "ALLOW"

\* the configured test command failed and the bundle says ALLOW
C23_Witness ==
    /\ Returned
    /\ Bundle.tests.command = "pytest"
    /\ Bundle.tests.exit_code = JInt(1)
    /\ Bundle.tests.result = "FAIL"
    /\ Bundle.constraints.violations = <<>>
    /\ Bundle.decision = "ALLOW"

\* the Gate allowed, and the Harness, started with the same contract and a
\* run-metadata without worktree_path, has chosen the directory it inspects
HarnessAfterGate ==
    /\ gate.pc = "done" /\ G0Record.decision = "ALLOW"
    /\ (G0Record.worktree_created \/ G0Record.worktree_reused)
    /\ har.pc \notin {"idle", "meta", "raised"}
    /\ har.contract_file = gate.contract_file
    /\ ~Truthy(har.meta.worktree_path)

\* C24: for every contract, when the Gate has allowed and prepared the
\* worktree at worktree_root/packet_id and the Harness is then run with the
\* same contract and no worktree_path in the run-metadata, the directory whose
\* head, status and diffs the Harness captures is that worktree, under the
\* default worktree_root and under a declared one.
C24_HarnessInspectsGateWorktree ==
    HarnessAfterGate =>
        /\ har.wt = Resolve(G0Record.worktree_path)
        /\ Returned => Bundle.worktree.path = Resolve(G0Record.worktree_path)

====
